---------------------------- MODULE Spec2Model ----------------------------
(***************************************************************************)
(* A model of scripts/make-tables, the compiler of the Unicode Character   *)
(* Database into the static tables of the library.                         *)
(*                                                                         *)
(* Texts are sequences: a hexadecimal field is the sequence of its digit   *)
(* values (a value of 16 or more stands for a character that is no hex     *)
(* digit), an output file is the sequence of the items written to it.      *)
(* A Python dict whose iteration order is irrelevant is a function on its  *)
(* key set; `canonical`, whose iteration order decides the composition     *)
(* table, also keeps its keys in insertion order.                          *)
(***************************************************************************)
EXTENDS Integers, Sequences, FiniteSets, TLC

VARIABLES
    pc,        \* position of the program (or of the call of one function)
    line,      \* process_file: the number of the next record of the file being read
    ucd,       \* the source files: for each, the sequence of its records (fields)
    out,       \* the output files: for each, its state and the text written to it
    script_name_codes,
    character_names,
    range_bounds,
    general_category,
    combining_class,
    bidi_class,
    bidi_mirrored,
    canonical,
    composition_exclusion,
    short_compatibility,
    long_compatibility,
    simple_upper,
    simple_lower,
    simple_title,
    simple_fold,
    full_fold,
    composition,
    scripts,
    table,     \* write_sparse_table / write_sparse_set: the `table` argument
    defval,    \* write_sparse_table: the `defval` argument (None when omitted)
    cpp,       \* the text written to the open output stream
    keysize_arg, \* write_charmap called on its own: the `keysize` argument
    valsize_arg, \* write_charmap called on its own: the `valsize` argument
    src,       \* process_file called on its own: the lines of the file, as characters
    minfields, \* process_file called on its own: the `minfields` argument
    callbacks  \* process_file called on its own: the field lists given to the callback

\* the arguments and the stream of a codec function called on its own
call == <<table, defval, cpp, keysize_arg, valsize_arg, src, minfields, callbacks>>

\* the tables filled from UnicodeData.txt
unicode_data == <<character_names, range_bounds, general_category, combining_class,
                  bidi_class, bidi_mirrored, canonical, composition_exclusion,
                  short_compatibility, long_compatibility, simple_upper, simple_lower,
                  simple_title>>

\* the tables filled by the later passes
derived == <<simple_fold, full_fold, composition, scripts>>

vars == <<pc, line, ucd, out, script_name_codes, unicode_data, derived, call>>

---------------------------------------------------------------------------
(* Bounds of the model *)

\* keys of the associations and members of the sets handed to the codecs: 0..MaxKey
MaxKey == 3

\* codepoints of the sets handed to write_sparse_set: 0..MaxCode
MaxCode == 6

\* records of CaseFolding.txt in the runs on case mappings
MaxFoldRecords == 2

\* records of UnicodeData.txt in the runs on decompositions
MaxDecompRecords == 2

\* records of UnicodeData.txt in the runs that may end in an exception
MaxRunRecords == 2

\* items (records and First/Last pairs) of UnicodeData.txt in the runs on ranges
MaxRangeItems == 2

\* characters of a line of the files handed to process_file
MaxLineLen == 4

\* codepoints of a sequence handed to write_charmap: one more than the
\* greatest declared size
MaxSeqLen == 19

\* records of UnicodeData.txt in the runs on names
MaxNameRecords == 2

\* records of NameAliases.txt
MaxAliasRecords == 2

\* records of DerivedCoreProperties.txt
MaxPropRecords == 2

---------------------------------------------------------------------------
(* Python values and helpers *)

\* An optional Python value (a variable that is None or holds a value) is a
\* sequence of at most one element: None is the empty one
None == <<>>

Some(v) == <<v>>

Max(S) == CHOOSE x \in S : \A y \in S : y <= x

Min(S) == CHOOSE x \in S : \A y \in S : x <= y

\* sorted(S) for a set of integers
RECURSIVE sorted(_)
sorted(S) == IF S = {} THEN <<>> ELSE <<Min(S)>> \o sorted(S \ {Min(S)})

\* dict.get(k, d)
Get(d, k, dflt) == IF k \in DOMAIN d THEN d[k] ELSE dflt

\* '{0:x}'.format(n): the hexadecimal digits of n >= 0, most significant first
RECURSIVE Hex(_)
Hex(n) == IF n < 16 THEN <<n>> ELSE Hex(n \div 16) \o <<n % 16>>

\* the number a hexadecimal literal of the generated C++ denotes
RECURSIVE HexVal(_)
HexVal(s) == IF s = <<>> THEN 0 ELSE 16 * HexVal(SubSeq(s, 1, Len(s) - 1)) + s[Len(s)]


\* sequence order of Python tuples of integers (used by sorted on tuple keys)
RECURSIVE LexLess(_, _)
LexLess(a, b) ==
    IF a = <<>> THEN b # <<>>
    ELSE IF b = <<>> THEN FALSE
    ELSE IF a[1] # b[1] THEN a[1] < b[1]
    ELSE LexLess(Tail(a), Tail(b))

\* sorted(S) for a set of tuples of integers
RECURSIVE sorted_tuples(_)
sorted_tuples(S) ==
    IF S = {} THEN <<>>
    ELSE LET m == CHOOSE x \in S : \A y \in S \ {x} : LexLess(x, y)
         IN  <<m>> \o sorted_tuples(S \ {m})

\* the result of a function that writes to cpp: the text as it stands when the
\* function returns (ok) or raises (~ok)
Returned(text) == [ok |-> TRUE, cpp |-> text]

Raised(text) == [ok |-> FALSE, cpp |-> text]

---------------------------------------------------------------------------
(* The items of the generated text *)

\* head: the include line and the opening of the namespace
head == [kind |-> "head"]

\* tail: the closing of the namespace
tail == [kind |-> "tail"]

\* write_table_header / write_array_header: the array declaration with its size
write_table_header(name, number) == [kind |-> "header", name |-> name, number |-> number]

\* write_table_footer / write_array_footer: the end of the array and its view
write_table_footer(name) == [kind |-> "footer", name |-> name]

\* one '{key,value},' line of the table `name`
Entry(name, key, val) == [kind |-> "entry", name |-> name, key |-> key, val |-> val]

\* the entries of table `name` in a text, in the order written
EntriesOf(text, name) == SelectSeq(text, LAMBDA e : e.kind = "entry" /\ e.name = name)

\* whether the text holds the header (the footer) of table `name`
HasHeader(text, name) == \E i \in DOMAIN text : text[i].kind = "header" /\ text[i].name = name

HasFooter(text, name) == \E i \in DOMAIN text : text[i].kind = "footer" /\ text[i].name = name

HeaderNumber(text, name) ==
    LET i == CHOOSE j \in DOMAIN text : text[j].kind = "header" /\ text[j].name = name
    IN  text[i].number

---------------------------------------------------------------------------
(* field_value, write_charmap, write_sparse_set, write_sparse_table *)

\* hex_chars(cs) inside the braces of field_value: one literal per element
hex_chars(cs) == [i \in DOMAIN cs |-> Hex(cs[i])]

\* a faulty field_value: a field longer than size is cut to size
field_value_truncating(field, multiple, size) ==
    IF size = 1
    THEN [ok |-> TRUE, text |-> IF multiple THEN Hex(field[1]) ELSE Hex(field)]
    ELSE LET cs == IF multiple THEN field ELSE <<field>>
         IN  [ok |-> TRUE,
              text |-> [i \in 1..size |-> IF i <= Len(cs) THEN Hex(cs[i]) ELSE Hex(0)]]

\* field_value(field, size). `multiple` is isinstance(field, (list, tuple)); a
\* single-character field gives one literal, a multi-character field gives
\* `size` literals, the field followed by zeros. result.ok is FALSE when an
\* exception is raised: ValueError for a field longer than size, IndexError
\* for field[0] of an empty field, TypeError for len(field) of an integer.
field_value(field, multiple, size) ==
    IF size = 1
    THEN IF multiple
         THEN IF Len(field) # 1
              THEN [ok |-> FALSE, text |-> <<>>]
              ELSE [ok |-> TRUE, text |-> Hex(field[1])]
         ELSE [ok |-> TRUE, text |-> Hex(field)]
    ELSE LET cs == IF multiple THEN field ELSE <<field>>
         IN  IF ~multiple \/ Len(cs) > size
             THEN [ok |-> FALSE, text |-> <<>>]
             ELSE [ok |-> TRUE,
                   text |-> hex_chars(cs \o [i \in 1..(size - Len(cs)) |-> 0])]

\* the loop of write_charmap over the sorted keys: the text after the entries
\* of codes[i..], or the text at the entry whose field_value raised
RECURSIVE charmap_loop(_, _, _, _, _, _, _)
charmap_loop(text, name, tbl, codes, i, keysize, valsize) ==
    IF i > Len(codes) THEN Returned(text)
    ELSE LET c == codes[i]
             k == field_value(c, keysize > 1, keysize)
             v == field_value(tbl[c], valsize > 1, valsize)
         IN  IF ~k.ok \/ ~v.ok THEN Raised(text)
             ELSE charmap_loop(Append(text, Entry(name, k.text, v.text)),
                               name, tbl, codes, i + 1, keysize, valsize)

\* write_charmap(cpp, name, table, keysize, valsize). At every call of the
\* program the keys are tuples exactly when keysize > 1 and the values are
\* tuples exactly when valsize > 1.
write_charmap(text, name, tbl, keysize, valsize) ==
    LET codes == IF keysize > 1 THEN sorted_tuples(DOMAIN tbl) ELSE sorted(DOMAIN tbl)
        r == charmap_loop(Append(text, write_table_header(name, Len(codes))),
                          name, tbl, codes, 1, keysize, valsize)
    IN  IF r.ok THEN Returned(Append(r.cpp, write_table_footer(name))) ELSE r

\* a faulty start of the scan: -1, which is the predecessor of codepoint 0
SetScanStart_minus_one == 0 - 1

\* first = last = -99
SetScanStart == 0 - 99

\* a faulty loop: every codepoint starts an interval of its own
RECURSIVE sparse_set_loop_unmerged(_, _, _, _, _)
sparse_set_loop_unmerged(codes, i, first, last, subranges) ==
    IF i > Len(codes) THEN subranges
    ELSE sparse_set_loop_unmerged(codes, i + 1, codes[i], codes[i],
             [k \in DOMAIN subranges \cup {codes[i]} |->
                 IF k = codes[i] THEN codes[i] ELSE subranges[k]])

\* the loop of write_sparse_set over the sorted codes from position i on, with
\* the loop variables first and last and the dict subranges built so far
RECURSIVE sparse_set_loop(_, _, _, _, _)
sparse_set_loop(codes, i, first, last, subranges) ==
    IF i > Len(codes) THEN subranges
    ELSE LET c == codes[i]
             f == IF c # last + 1 THEN c ELSE first
         IN  sparse_set_loop(codes, i + 1, f, c,
                 [k \in DOMAIN subranges \cup {f} |-> IF k = f THEN c ELSE subranges[k]])

\* write_sparse_set(cpp, name, table)
write_sparse_set(text, name, tbl) ==
    LET subranges == sparse_set_loop(sorted(tbl), 1, SetScanStart, SetScanStart, <<>>)
    IN  write_charmap(text, name, subranges, 1, 1)

\* a faulty end of the scan: range(0, max(table) + 1) stops at the greatest key
ScanStop_at_max(tbl) == Max(DOMAIN tbl) + 1

\* range(0, max(table) + 2): the exclusive end of the scan
ScanStop(tbl) == Max(DOMAIN tbl) + 2

\* defval when the caller gives none
default_defval(vtype) == "static_cast<" \o vtype \o ">(0)"

\* a faulty loop: lastv is never updated, so every codepoint starts an entry
RECURSIVE sparse_table_loop_stale_lastv(_, _, _, _)
sparse_table_loop_stale_lastv(tbl, dflt, k, lastv) ==
    IF k >= ScanStop(tbl) THEN <<>>
    ELSE LET v == Get(tbl, k, dflt)
         IN  (IF Some(v) # lastv THEN <<<<k, v>>>> ELSE <<>>)
                 \o sparse_table_loop_stale_lastv(tbl, dflt, k + 1, lastv)

\* either loop of write_sparse_table from k on: the (k, v) at which v differs
\* from the value before it (lastv, an optional value, is None at first)
RECURSIVE sparse_table_loop(_, _, _, _)
sparse_table_loop(tbl, dflt, k, lastv) ==
    IF k >= ScanStop(tbl) THEN <<>>
    ELSE LET v == Get(tbl, k, dflt)
         IN  (IF Some(v) # lastv THEN <<<<k, v>>>> ELSE <<>>)
                 \o sparse_table_loop(tbl, dflt, k + 1, Some(v))

\* a faulty write_sparse_table: the defval of the caller is ignored
write_sparse_table_ignoring_defval(text, vtype, name, tbl, dv) ==
    IF DOMAIN tbl = {} THEN Raised(text)
    ELSE LET dflt == default_defval(vtype)
             runs == sparse_table_loop(tbl, dflt, 0, None)
         IN  Returned(Append(text, write_table_header(name, Len(runs)))
                 \o [i \in DOMAIN runs |-> Entry(name, Hex(runs[i][1]), runs[i][2])]
                 \o <<write_table_footer(name)>>)

\* a faulty write_sparse_table: an empty table is written as a header for no
\* entry and a footer
write_sparse_table_allowing_empty(text, vtype, name, tbl, dv) ==
    IF DOMAIN tbl = {}
    THEN Returned(<<write_table_header(name, 0), write_table_footer(name)>>)
    ELSE LET dflt == IF dv = None THEN default_defval(vtype) ELSE dv[1]
             runs == sparse_table_loop(tbl, dflt, 0, None)
         IN  Returned(Append(text, write_table_header(name, Len(runs)))
                 \o [i \in DOMAIN runs |-> Entry(name, Hex(runs[i][1]), runs[i][2])]
                 \o <<write_table_footer(name)>>)

\* write_sparse_table(cpp, vtype, name, table, defval), dv the optional defval:
\* max() of an empty table raises in the first loop, before anything is written
write_sparse_table(text, vtype, name, tbl, dv) ==
    IF DOMAIN tbl = {} THEN Raised(text)
    ELSE LET dflt == IF dv = None THEN default_defval(vtype) ELSE dv[1]
             number == Len(sparse_table_loop(tbl, dflt, 0, None))
             runs == sparse_table_loop(tbl, dflt, 0, None)
         IN  Returned(Append(text, write_table_header(name, number))
                 \o [i \in DOMAIN runs |-> Entry(name, Hex(runs[i][1]), runs[i][2])]
                 \o <<write_table_footer(name)>>)

---------------------------------------------------------------------------
(* Texts of the source files *)

\* whether int(text, 16) returns: the text is a non-empty run of hex digits
IsHex(text) == text # <<>> /\ \A i \in DOMAIN text : text[i] \in 0..15

\* whether int(text) returns: the text is a non-empty run of decimal digits
IsDec(text) == text # <<>> /\ \A i \in DOMAIN text : text[i] \in 0..9

\* int(text) of a run of decimal digits
RECURSIVE DecVal(_)
DecVal(s) == IF s = <<>> THEN 0 ELSE 10 * DecVal(SubSeq(s, 1, Len(s) - 1)) + s[Len(s)]

\* str.startswith and str.endswith, a string being the sequence of its characters
startswith(str, prefix) ==
    Len(str) >= Len(prefix) /\ SubSeq(str, 1, Len(prefix)) = prefix

endswith(str, suffix) ==
    Len(str) >= Len(suffix) /\ SubSeq(str, Len(str) - Len(suffix) + 1, Len(str)) = suffix

\* split_codes(field): the field is the sequence of its whitespace-separated
\* words; ok is FALSE when int(w, 16) raises for one of them
split_codes(words) ==
    [ok |-> \A i \in DOMAIN words : IsHex(words[i]),
     codes |-> [i \in DOMAIN words |-> HexVal(words[i])]]

\* hexrange(field): the field is the sequence of the one or two hex texts around
\* '..'; ok is FALSE when int(.., 16) raises
hexrange(field) ==
    [ok |-> \A i \in DOMAIN field : IsHex(field[i]),
     codes |-> IF Len(field) > 1 THEN HexVal(field[1])..HexVal(field[2])
               ELSE {HexVal(field[1])}]

\* d[k] = v on a dict
Put(d, k, v) == [x \in DOMAIN d \cup {k} |-> IF x = k THEN v ELSE d[x]]

\* A dict whose iteration order matters is the sequence of its (key, value)
\* items in insertion order. d[k] = v keeps the place of a key already present.
OHas(d, k) == \E i \in DOMAIN d : d[i][1] = k

OGet(d, k) == d[CHOOSE i \in DOMAIN d : d[i][1] = k][2]

OPut(d, k, v) ==
    IF OHas(d, k)
    THEN [i \in DOMAIN d |-> IF d[i][1] = k THEN <<k, v>> ELSE d[i]]
    ELSE Append(d, <<k, v>>)

OKeys(d) == {d[i][1] : i \in DOMAIN d}

\* the same dict as a function on its keys
OFn(d) == [k \in OKeys(d) |-> OGet(d, k)]

---------------------------------------------------------------------------
(* The state at the start of the program *)

\* the output files, in the order the program writes them
OutputFiles ==
    <<"unicorn/iso-script-names.hpp", "unicorn/ucd-character-names.cpp",
      "unicorn/ucd-property-tables.cpp", "unicorn/ucd-bidi-tables.cpp",
      "unicorn/ucd-block-tables.cpp", "unicorn/ucd-case-tables.cpp",
      "unicorn/ucd-decomposition-tables.cpp", "unicorn/ucd-numeric-tables.cpp",
      "unicorn/ucd-script-tables.cpp", "unicorn/ucd-normalization-test.cpp",
      "unicorn/ucd-segmentation-test.cpp">>

FileNames == {OutputFiles[i] : i \in DOMAIN OutputFiles}

\* a file as the previous run left it
OldFile == [state |-> "old", text |-> <<>>]

\* open(name, 'w') truncates the file; the with block closes it, complete when
\* the block ends and half-written when a statement of the block raises
Written(files, name, r) ==
    [files EXCEPT ![name] =
        IF r.ok THEN [state |-> "complete", text |-> r.cpp]
        ELSE [state |-> "partial", text |-> r.cpp]]

\* a statement of a with block, giving w, after the ones that gave r: it is
\* not reached when one of them raised
Then(r, w) == IF r.ok THEN w ELSE r

\* cpp.write(item)
Write(text, item) == Returned(Append(text, item))

\* the tables of a file that come from source files the model does not read
elided(what) == [kind |-> "elided", name |-> what]

\* no source file has a record
NoSource ==
    [iso15924 |-> <<>>, UnicodeData |-> <<>>, CaseFolding |-> <<>>,
     CompositionExclusions |-> <<>>, Scripts |-> <<>>, NameAliases |-> <<>>,
     DerivedCoreProperties |-> <<>>]

\* the module-level collections as the script creates them, no file written
EmptyCollections ==
    /\ line = 1
    /\ out = [f \in FileNames |-> OldFile]
    /\ script_name_codes = <<>>
    /\ character_names = <<>>
    /\ range_bounds = <<>>
    /\ general_category = <<>>
    /\ combining_class = <<>>
    /\ bidi_class = <<>>
    /\ bidi_mirrored = {}
    /\ canonical = <<>>
    /\ composition_exclusion = {}
    /\ short_compatibility = <<>>
    /\ long_compatibility = <<>>
    /\ simple_upper = <<>>
    /\ simple_lower = <<>>
    /\ simple_title = <<>>
    /\ simple_fold = <<>>
    /\ full_fold = <<>>
    /\ composition = <<>>
    /\ scripts = <<>>

\* process_file has not been called on its own
NoFile ==
    /\ src = <<>>
    /\ minfields = 1
    /\ callbacks = <<>>

\* write_charmap has not been called on its own (its sizes default to 1)
NoCharmap ==
    /\ keysize_arg = 1
    /\ valsize_arg = 1

\* the program before its first statement: no codec has been called
ProgramStart ==
    /\ EmptyCollections
    /\ NoFile
    /\ NoCharmap
    /\ table = <<>>
    /\ defval = None
    /\ cpp = <<>>

\* an uncaught exception ends the program; what memory held no longer matters
Abort ==
    /\ pc' = "aborted"
    /\ UNCHANGED <<line, script_name_codes, unicode_data, derived>>

---------------------------------------------------------------------------
(* The program, part 1: script names, UnicodeData.txt, names, properties *)

\* script_name_codes[name] = code for the rows of iso15924-codes.html in order
\* (the rows are given as matched and cleaned: code lowered, name normalised)
RECURSIVE name_codes(_, _, _)
name_codes(rows, i, d) ==
    IF i > Len(rows) THEN d
    ELSE name_codes(rows, i + 1, Put(d, rows[i].name, rows[i].code))

\* the ISO 15924 table and unicorn/iso-script-names.hpp
IsoScriptNames ==
    /\ pc = "start"
    /\ script_name_codes' = name_codes(ucd.iso15924, 1, <<>>)
    /\ out' = Written(out, "unicorn/iso-script-names.hpp",
                      Returned(<<elided("iso_script_names")>>))
    /\ pc' = "UnicodeData"
    /\ line' = 1
    /\ UNCHANGED <<ucd, unicode_data, derived, call>>

\* characters of the names of UnicodeData.txt
FirstSuffix == <<" ", "F", "i", "r", "s", "t", ">">>

LastSuffix == <<" ", "L", "a", "s", "t", ">">>

\* '0x{0:4x}'.format(n): the hex digits of n, padded on the left with spaces
\* (character 32) to four characters
gc_format(n) == [i \in 1..(4 - Len(Hex(n))) |-> 32] \o Hex(n)

\* a faulty default: '0x0'
gc_default_zero == <<0>>

\* '0x436e', the default of the general_category table (Cn)
gc_default == <<4, 3, 6, 14>>

\* whether unicode_data_record(fields) raises: a field int() cannot read, or a
\* Last marker with no range open
unicode_data_record_raises(fields) ==
    \/ ~IsHex(fields.code)
    \/ endswith(fields.name, LastSuffix) /\ ~endswith(fields.name, FirstSuffix)
           /\ range_bounds = <<>>
    \/ ~IsDec(fields.ccc)
    \/ ~split_codes(fields.decomp.words).ok
    \/ fields.uc # <<>> /\ ~IsHex(fields.uc)
    \/ fields.lc # <<>> /\ ~IsHex(fields.lc)
    \/ fields.tc # <<>> /\ ~IsHex(fields.tc)

\* unicode_data_record(fields), called by process_file for the next record of
\* ucd/UnicodeData.txt
UnicodeDataRecord ==
    /\ pc = "UnicodeData"
    /\ line <= Len(ucd.UnicodeData)
    /\ LET fields == ucd.UnicodeData[line]
           code == HexVal(fields.code)
           canon == ~fields.decomp.tag
           dchars == split_codes(fields.decomp.words).codes
           has_decomp == fields.decomp.tag \/ fields.decomp.words # <<>>
           uc == IF fields.uc # <<>> THEN HexVal(fields.uc) ELSE code
           lc == IF fields.lc # <<>> THEN HexVal(fields.lc) ELSE code
           tc == IF fields.tc # <<>> THEN HexVal(fields.tc) ELSE uc
       IN  IF unicode_data_record_raises(fields) THEN Abort
           ELSE
             /\ character_names' =
                    IF ~startswith(fields.name, <<"<">>)
                    THEN Put(character_names, code, fields.name)
                    ELSE character_names
             /\ range_bounds' =
                    IF endswith(fields.name, FirstSuffix)
                    THEN Append(range_bounds, <<code, code>>)
                    ELSE IF endswith(fields.name, LastSuffix)
                    THEN [range_bounds EXCEPT ![Len(range_bounds)][2] = code]
                    ELSE range_bounds
             /\ general_category' =
                    Put(general_category, code, gc_format(256 * fields.gc[1] + fields.gc[2]))
             /\ combining_class' = Put(combining_class, code, DecVal(fields.ccc))
             /\ bidi_class' = Put(bidi_class, code, "Bidi_Class::" \o fields.bidi)
             /\ bidi_mirrored' =
                    IF fields.mirrored = "Y" THEN bidi_mirrored \cup {code}
                    ELSE bidi_mirrored
             /\ canonical' =
                    IF has_decomp /\ canon THEN OPut(canonical, code, dchars)
                    ELSE canonical
             /\ composition_exclusion' =
                    IF has_decomp /\ canon /\ Len(dchars) = 1
                    THEN composition_exclusion \cup {code}
                    ELSE composition_exclusion
             /\ short_compatibility' =
                    IF has_decomp /\ ~canon /\ Len(dchars) <= 3
                    THEN Put(short_compatibility, code, dchars)
                    ELSE short_compatibility
             /\ long_compatibility' =
                    IF has_decomp /\ ~canon /\ Len(dchars) > 3
                    THEN Put(long_compatibility, code, dchars)
                    ELSE long_compatibility
             /\ simple_upper' = IF uc # code THEN Put(simple_upper, code, uc) ELSE simple_upper
             /\ simple_lower' = IF lc # code THEN Put(simple_lower, code, lc) ELSE simple_lower
             /\ simple_title' = IF tc # uc THEN Put(simple_title, code, tc) ELSE simple_title
             /\ pc' = pc
             /\ line' = line + 1
             /\ UNCHANGED <<script_name_codes, derived>>
    /\ UNCHANGED <<ucd, out, call>>

\* general_category[code] = gc (and the like) for every code in codes
PutAll(d, codes, v) == [x \in DOMAIN d \cup codes |-> IF x \in codes THEN v ELSE d[x]]

\* the loop over range_bounds from its i-th pair on; g holds general_category,
\* bidi_class and bidi_mirrored as the pairs before it left them
RECURSIVE propagate(_, _, _)
propagate(rbs, i, g) ==
    IF i > Len(rbs) THEN g
    ELSE LET rb == rbs[i]
             inner == (rb[1] + 1)..(rb[2] - 1)
         IN  propagate(rbs, i + 1,
                 [gc |-> PutAll(g.gc, inner, g.gc[rb[1]]),
                  bc |-> PutAll(g.bc, inner, g.bc[rb[1]]),
                  bm |-> IF rb[1] \in g.bm THEN g.bm \cup inner ELSE g.bm])

\* the end of UnicodeData.txt, then the values of each First record given to
\* the codepoints inside its range
RangePropagation ==
    /\ pc = "UnicodeData"
    /\ line > Len(ucd.UnicodeData)
    /\ LET g == propagate(range_bounds, 1,
                    [gc |-> general_category, bc |-> bidi_class, bm |-> bidi_mirrored])
       IN  /\ general_category' = g.gc
           /\ bidi_class' = g.bc
           /\ bidi_mirrored' = g.bm
    /\ pc' = "character_names"
    /\ UNCHANGED <<line, ucd, out, script_name_codes, character_names, range_bounds,
                   combining_class, canonical, composition_exclusion,
                   short_compatibility, long_compatibility, simple_upper, simple_lower,
                   simple_title, derived, call>>

\* the characters of the hexadecimal digits
HexDigits == <<"0", "1", "2", "3", "4", "5", "6", "7", "8", "9",
               "a", "b", "c", "d", "e", "f">>

\* '{0:x}'.format(code) as characters
HexChars(code) == [i \in DOMAIN Hex(code) |-> HexDigits[Hex(code)[i] + 1]]

\* a faulty record: the name is not closed by ';'
name_record_unterminated(code, name) == HexChars(code) \o <<";">> \o name

\* '{0:x};{1};'.format(code, character_names[code])
name_record(code, name) == HexChars(code) \o <<";">> \o name \o <<";">>

\* names_list += ... for the codes from the i-th of the sorted codes on
RECURSIVE names_from(_, _)
names_from(codes, i) ==
    IF i > Len(codes) THEN <<>>
    ELSE name_record(codes[i], character_names[codes[i]]) \o names_from(codes, i + 1)

\* names_list: the characters of one '<hex>;<name>;' record per named
\* codepoint, ascending
names_list == names_from(sorted(DOMAIN character_names), 1)

\* a faulty callback: every alias is taken for a correction
name_aliases_record_any_type(corrected, fields) ==
    IF IsHex(fields.code)
    THEN [ok |-> TRUE, names |-> Put(corrected.names, HexVal(fields.code), fields.name)]
    ELSE [ok |-> FALSE, names |-> corrected.names]

\* name_aliases_record(fields): corrected_names[code] = fields[1] for a
\* 'correction' record; ok is FALSE when int(fields[0], 16) raises
name_aliases_record(corrected, fields) ==
    IF fields.type # "correction" THEN corrected
    ELSE IF IsHex(fields.code)
    THEN [ok |-> TRUE, names |-> Put(corrected.names, HexVal(fields.code), fields.name)]
    ELSE [ok |-> FALSE, names |-> corrected.names]

\* process_file('ucd/NameAliases.txt', name_aliases_record, 3) from the i-th
\* record on; the first exception ends it
RECURSIVE process_name_aliases(_, _, _)
process_name_aliases(records, i, corrected) ==
    IF i > Len(records) \/ ~corrected.ok THEN corrected
    ELSE process_name_aliases(records, i + 1, name_aliases_record(corrected, records[i]))

\* corrected_names after NameAliases.txt
corrected_names == process_name_aliases(ucd.NameAliases, 1, [ok |-> TRUE, names |-> <<>>])

\* the '{0x<hex>,"<name>"},' lines of corrected_names, ascending
corrected_names_entries ==
    LET codes == sorted(DOMAIN corrected_names.names)
    IN  [i \in DOMAIN codes |->
            Entry("corrected_names", Hex(codes[i]), corrected_names.names[codes[i]])]

\* unicorn/ucd-character-names.cpp (the blob is held as names_list, the
\* characters it packs), after NameAliases.txt is read
CharacterNames ==
    /\ pc = "character_names"
    /\ IF corrected_names.ok
       THEN /\ out' = Written(out, "unicorn/ucd-character-names.cpp",
                         Returned(<<head, [kind |-> "names", list |-> names_list],
                                    write_table_header("corrected_names",
                                        Cardinality(DOMAIN corrected_names.names))>>
                                  \o corrected_names_entries
                                  \o <<write_table_footer("corrected_names"), tail>>))
            /\ pc' = "property_tables"
            /\ UNCHANGED <<line, script_name_codes, unicode_data, derived>>
       ELSE Abort /\ UNCHANGED out
    /\ UNCHANGED <<ucd, call>>

\* the statements of a with block from the i-th on, each a cpp.write or a call
\* of a table writer; the first exception ends the block
RECURSIVE with_block(_, _, _)
with_block(text, i, statements) ==
    IF i > Len(statements) THEN Returned(text)
    ELSE LET st == statements[i]
             r == CASE st.write = "text" -> Write(text, st.item)
                    [] st.write = "sparse_set" -> write_sparse_set(text, st.name, st.table)
                    [] st.write = "sparse_table" ->
                           write_sparse_table(text, st.vtype, st.name, st.table, st.defval)
         IN  IF r.ok THEN with_block(r.cpp, i + 1, statements) ELSE r

\* NamedBooleanUcdRecord(table, prop)(fields): the codes of a record of the
\* property join the table; ok is FALSE when hexrange raises
NamedBooleanUcdRecord(r, prop, fields) ==
    IF fields.prop # prop THEN r
    ELSE IF hexrange(fields.code).ok
    THEN [ok |-> TRUE, table |-> r.table \cup hexrange(fields.code).codes]
    ELSE [ok |-> FALSE, table |-> r.table]

\* process_file('ucd/DerivedCoreProperties.txt', NamedBooleanUcdRecord(table,
\* prop), 2) from the i-th record on; the first exception ends it
RECURSIVE named_boolean_file(_, _, _, _)
named_boolean_file(records, i, prop, r) ==
    IF i > Len(records) \/ ~r.ok THEN r
    ELSE named_boolean_file(records, i + 1, prop,
                            NamedBooleanUcdRecord(r, prop, records[i]))

\* id_continue, id_start, xid_continue, xid_start after their pass over
\* DerivedCoreProperties.txt
derived_core_property(prop) ==
    named_boolean_file(ucd.DerivedCoreProperties, 1, prop, [ok |-> TRUE, table |-> {}])

\* a faulty difference: id_continue as it is
id_nonstart_all_continue == derived_core_property("ID_Continue").table

\* id_nonstart = id_continue - id_start
id_nonstart ==
    derived_core_property("ID_Continue").table \ derived_core_property("ID_Start").table

\* xid_nonstart = xid_continue - xid_start
xid_nonstart ==
    derived_core_property("XID_Continue").table \ derived_core_property("XID_Start").table

\* unicorn/ucd-property-tables.cpp: general_category, then the tables and sets
\* of the property files, of which the model reads DerivedCoreProperties.txt
\* for the identifier properties; an exception in a pass over a property file
\* ends the program before the file is opened
PropertyTables ==
    /\ pc = "property_tables"
    /\ IF \E prop \in {"ID_Continue", "ID_Start", "XID_Continue", "XID_Start"} :
              ~derived_core_property(prop).ok
       THEN Abort /\ UNCHANGED out
       ELSE LET r == with_block(<<>>, 1,
                        <<[write |-> "text", item |-> head],
                          [write |-> "sparse_table", vtype |-> "uint16_t",
                           name |-> "general_category", table |-> general_category,
                           defval |-> Some(gc_default)],
                          [write |-> "text", item |-> elided("properties")],
                          [write |-> "sparse_set", name |-> "id_start",
                           table |-> derived_core_property("ID_Start").table],
                          [write |-> "sparse_set", name |-> "id_nonstart",
                           table |-> id_nonstart],
                          [write |-> "sparse_set", name |-> "xid_start",
                           table |-> derived_core_property("XID_Start").table],
                          [write |-> "sparse_set", name |-> "xid_nonstart",
                           table |-> xid_nonstart],
                          [write |-> "text", item |-> elided("more_properties")],
                          [write |-> "text", item |-> tail]>>)
            IN  /\ out' = Written(out, "unicorn/ucd-property-tables.cpp", r)
                /\ IF r.ok
                   THEN pc' = "bidi_tables"
                        /\ UNCHANGED <<line, script_name_codes, unicode_data, derived>>
                   ELSE Abort
    /\ UNCHANGED <<ucd, call>>

\* write_array_header(cpp, entrytype, name, number), write_array_footer
write_array_header(name, number) == [kind |-> "array_header", name |-> name, number |-> number]

write_array_footer(name) == [kind |-> "array_footer", name |-> name]

\* write_charset(cpp, name, table): an array of the characters
write_charset(text, name, tbl) ==
    Returned(Append(text, write_array_header(name, Len(tbl)))
        \o [i \in DOMAIN tbl |-> [kind |-> "element", name |-> name, val |-> Hex(tbl[i])]]
        \o <<write_array_footer(name)>>)

\* unicorn/ucd-bidi-tables.cpp: bidi_class, bidi_mirrored, then the maps of
\* BidiBrackets.txt and BidiMirroring.txt
BidiTables ==
    /\ pc = "bidi_tables"
    /\ LET r1 == write_sparse_table(<<head>>, "Bidi_Class", "bidi_class", bidi_class, None)
           r2 == Then(r1, write_charset(r1.cpp, "bidi_mirrored", sorted(bidi_mirrored)))
           r3 == Then(r2, Write(r2.cpp, elided("bidi")))
           r4 == Then(r3, Write(r3.cpp, tail))
       IN  /\ out' = Written(out, "unicorn/ucd-bidi-tables.cpp", r4)
           /\ IF r4.ok
              THEN pc' = "block_tables"
                   /\ UNCHANGED <<line, script_name_codes, unicode_data, derived>>
              ELSE Abort
    /\ UNCHANGED <<ucd, call>>

\* unicorn/ucd-block-tables.cpp, from Blocks.txt
BlockTables ==
    /\ pc = "block_tables"
    /\ out' = Written(out, "unicorn/ucd-block-tables.cpp",
                      Returned(<<head, elided("blocks"), tail>>))
    /\ pc' = "CaseFolding"
    /\ line' = 1
    /\ UNCHANGED <<ucd, script_name_codes, unicode_data, derived, call>>

---------------------------------------------------------------------------
(* The program, part 2: case tables *)

\* whether case_folding_record(fields) raises
case_folding_record_raises(fields) ==
    \/ ~IsHex(fields.code)
    \/ fields.status \in {"C", "S"}
           /\ (Len(fields.mapping) # 1 \/ ~IsHex(fields.mapping[1]))
    \/ fields.status = "F" /\ ~split_codes(fields.mapping).ok

\* case_folding_record(fields), called by process_file for the next record of
\* ucd/CaseFolding.txt (SpecialCasing.txt, read before it, has no record)
CaseFoldingRecord ==
    /\ pc = "CaseFolding"
    /\ line <= Len(ucd.CaseFolding)
    /\ LET fields == ucd.CaseFolding[line]
           code == HexVal(fields.code)
           values == split_codes(fields.mapping).codes
       IN  IF case_folding_record_raises(fields) THEN Abort
           ELSE
             /\ simple_fold' =
                    IF fields.status \in {"C", "S"}
                    THEN Put(simple_fold, code, HexVal(fields.mapping[1]))
                    ELSE simple_fold
             /\ full_fold' =
                    IF fields.status = "F" /\ Len(values) > 1
                    THEN Put(full_fold, code, values)
                    ELSE full_fold
             /\ pc' = pc
             /\ line' = line + 1
             /\ UNCHANGED <<script_name_codes, unicode_data, composition, scripts>>
    /\ UNCHANGED <<ucd, out, call>>

\* a faulty default: the fold of a codepoint with no fold record is taken to
\* be its simple lowercase
fold_defaults_to_lower(lower, fold) ==
    [code \in DOMAIN fold \cup DOMAIN lower |->
        IF code \in DOMAIN fold THEN fold[code] ELSE lower[code]]

\* for code in simple_lower: if code not in simple_fold: simple_fold[code] = code
fold_defaults(lower, fold) ==
    [code \in DOMAIN fold \cup DOMAIN lower |->
        IF code \in DOMAIN fold THEN fold[code] ELSE code]

\* a faulty filter: every fold is kept
fold_divergences_keep_all(lower, fold) == fold

\* temp_fold: the folds that are not the simple lowercase of their codepoint
fold_divergences(lower, fold) ==
    LET keep == {code \in DOMAIN fold :
                    code \notin DOMAIN lower \/ lower[code] # fold[code]}
    IN  [code \in keep |-> fold[code]]

\* the end of CaseFolding.txt, then simple_fold made the table of the folds
\* that differ from the simple lowercase
FoldNormalization ==
    /\ pc = "CaseFolding"
    /\ line > Len(ucd.CaseFolding)
    /\ simple_fold' = fold_divergences(simple_lower, fold_defaults(simple_lower, simple_fold))
    /\ pc' = "case_tables"
    /\ UNCHANGED <<line, ucd, out, script_name_codes, unicode_data, full_fold,
                   composition, scripts, call>>

\* unicorn/ucd-case-tables.cpp
CaseTables ==
    /\ pc = "case_tables"
    /\ LET r1 == Write(<<head>>, elided("other_lowercase, other_uppercase"))
           r2 == Then(r1, write_charmap(r1.cpp, "simple_uppercase", simple_upper, 1, 1))
           r3 == Then(r2, write_charmap(r2.cpp, "simple_lowercase", simple_lower, 1, 1))
           r4 == Then(r3, write_charmap(r3.cpp, "simple_titlecase", simple_title, 1, 1))
           r5 == Then(r4, write_charmap(r4.cpp, "simple_casefold", simple_fold, 1, 1))
           r6 == Then(r5, Write(r5.cpp, elided("full_uppercase, full_lowercase, full_titlecase")))
           r7 == Then(r6, write_charmap(r6.cpp, "full_casefold", full_fold, 1, 3))
           r8 == Then(r7, Write(r7.cpp, tail))
       IN  /\ out' = Written(out, "unicorn/ucd-case-tables.cpp", r8)
           /\ IF r8.ok
              THEN pc' = "CompositionExclusions" /\ line' = 1
                   /\ UNCHANGED <<script_name_codes, unicode_data, derived>>
              ELSE Abort
    /\ UNCHANGED <<ucd, call>>

---------------------------------------------------------------------------
(* The program, part 3: decomposition tables *)

\* BooleanUcdRecord(composition_exclusion)(fields), called by process_file for
\* the next record of ucd/CompositionExclusions.txt
CompositionExclusionsRecord ==
    /\ pc = "CompositionExclusions"
    /\ line <= Len(ucd.CompositionExclusions)
    /\ LET fields == ucd.CompositionExclusions[line]
       IN  IF ~hexrange(fields.code).ok THEN Abort
           ELSE
             /\ composition_exclusion' = composition_exclusion \cup hexrange(fields.code).codes
             /\ pc' = pc
             /\ line' = line + 1
             /\ UNCHANGED <<script_name_codes, character_names, range_bounds,
                            general_category, combining_class, bidi_class, bidi_mirrored,
                            canonical, short_compatibility, long_compatibility,
                            simple_upper, simple_lower, simple_title, derived>>
    /\ UNCHANGED <<ucd, out, call>>

\* a faulty test: the combining class of a codepoint counts whether or not the
\* codepoint has a canonical decomposition
inferred_exclusions_any_class(canon, cclass) ==
    {c \in OKeys(canon) : Get(cclass, OGet(canon, c)[1], 0) # 0}
        \cup {c \in DOMAIN cclass : cclass[c] # 0}

\* the codepoints the loop over canonical adds to composition_exclusion
inferred_exclusions(canon, cclass) ==
    {c \in OKeys(canon) : cclass[c] # 0 \/ Get(cclass, OGet(canon, c)[1], 0) # 0}

\* the end of CompositionExclusions.txt, then the exclusions the combining
\* classes imply
ExclusionInference ==
    /\ pc = "CompositionExclusions"
    /\ line > Len(ucd.CompositionExclusions)
    /\ composition_exclusion' =
           composition_exclusion \cup inferred_exclusions(canonical, combining_class)
    /\ pc' = "composition"
    /\ UNCHANGED <<line, ucd, out, script_name_codes, character_names, range_bounds,
                   general_category, combining_class, bidi_class, bidi_mirrored,
                   canonical, short_compatibility, long_compatibility,
                   simple_upper, simple_lower, simple_title, derived, call>>

\* a faulty loop: a sequence already in the table keeps its first codepoint
RECURSIVE compose_first_wins(_, _, _, _)
compose_first_wins(canon, excl, i, comp) ==
    IF i > Len(canon) THEN comp
    ELSE LET c == canon[i][1]
         IN  compose_first_wins(canon, excl, i + 1,
                 IF c \notin excl /\ canon[i][2] \notin DOMAIN comp
                 THEN Put(comp, canon[i][2], c) ELSE comp)

\* a faulty loop: the exclusion set is not consulted
RECURSIVE compose_ignoring_exclusions(_, _, _, _)
compose_ignoring_exclusions(canon, excl, i, comp) ==
    IF i > Len(canon) THEN comp
    ELSE compose_ignoring_exclusions(canon, excl, i + 1,
                                     Put(comp, canon[i][2], canon[i][1]))

\* for c in canonical: if c not in composition_exclusion:
\*     composition[canonical[c]] = c
\* from the i-th item of canonical on, in the order of the dict
RECURSIVE compose(_, _, _, _)
compose(canon, excl, i, comp) ==
    IF i > Len(canon) THEN comp
    ELSE LET c == canon[i][1]
         IN  compose(canon, excl, i + 1,
                 IF c \notin excl THEN Put(comp, canon[i][2], c) ELSE comp)

\* the composition table
Composition ==
    /\ pc = "composition"
    /\ composition' = compose(canonical, composition_exclusion, 1, <<>>)
    /\ pc' = "decomposition_tables"
    /\ UNCHANGED <<line, ucd, out, script_name_codes, unicode_data, simple_fold,
                   full_fold, scripts, call>>

\* unicorn/ucd-decomposition-tables.cpp
DecompositionTables ==
    /\ pc = "decomposition_tables"
    /\ LET r1 == write_sparse_table(<<head>>, "int", "combining_class", combining_class, Some(0))
           r2 == Then(r1, write_charmap(r1.cpp, "canonical", OFn(canonical), 1, 2))
           r3 == Then(r2, write_charmap(r2.cpp, "short_compatibility", short_compatibility, 1, 3))
           r4 == Then(r3, write_charmap(r3.cpp, "long_compatibility", long_compatibility, 1, 18))
           r5 == Then(r4, write_charmap(r4.cpp, "composition", composition, 2, 1))
           r6 == Then(r5, Write(r5.cpp, tail))
       IN  /\ out' = Written(out, "unicorn/ucd-decomposition-tables.cpp", r6)
           /\ IF r6.ok
              THEN pc' = "numeric_tables"
                   /\ UNCHANGED <<line, script_name_codes, unicode_data, derived>>
              ELSE Abort
    /\ UNCHANGED <<ucd, call>>

---------------------------------------------------------------------------
(* The program, part 4: numeric, script and test tables *)

\* unicorn/ucd-numeric-tables.cpp, from DerivedNumericValues.txt
NumericTables ==
    /\ pc = "numeric_tables"
    /\ out' = Written(out, "unicorn/ucd-numeric-tables.cpp",
                      Returned(<<head, elided("numeric_value"), tail>>))
    /\ pc' = "Scripts"
    /\ line' = 1
    /\ UNCHANGED <<ucd, script_name_codes, unicode_data, derived, call>>

\* ord(c.lower()) of an ASCII character
lower_ord(c) == IF c \in 65..90 THEN c + 32 ELSE c

\* a faulty packing: the tag is not shifted before the next character is added
RECURSIVE encode_script_unshifted(_, _, _)
encode_script_unshifted(abbr, i, tag) ==
    IF i > Len(abbr) THEN tag
    ELSE encode_script_unshifted(abbr, i + 1, tag + lower_ord(abbr[i]))

\* encode_script(abbr), abbr the sequence of its character codes
RECURSIVE encode_script_from(_, _, _)
encode_script_from(abbr, i, tag) ==
    IF i > Len(abbr) THEN tag
    ELSE encode_script_from(abbr, i + 1, tag * 256 + lower_ord(abbr[i]))

encode_script(abbr) == encode_script_from(abbr, 1, 0)

\* script_record(fields), called by process_file for the next record of
\* ucd/Scripts.txt: ValueError for a bad range, KeyError for an unknown name
ScriptRecord ==
    /\ pc = "Scripts"
    /\ line <= Len(ucd.Scripts)
    /\ LET fields == ucd.Scripts[line]
           codes == hexrange(fields.code)
       IN  IF ~codes.ok \/ fields.script \notin DOMAIN script_name_codes THEN Abort
           ELSE
             /\ scripts' = PutAll(scripts, codes.codes,
                                  encode_script(script_name_codes[fields.script]))
             /\ pc' = pc
             /\ line' = line + 1
             /\ UNCHANGED <<script_name_codes, unicode_data, simple_fold, full_fold,
                            composition>>
    /\ UNCHANGED <<ucd, out, call>>

\* 0x7a7a7a7a, the default of the scripts table ('zzzz')
scripts_default == 2054847098

\* the end of Scripts.txt (ScriptExtensions.txt is not read by the model), then
\* unicorn/ucd-script-tables.cpp
ScriptTables ==
    /\ pc = "Scripts"
    /\ line > Len(ucd.Scripts)
    /\ LET r1 == write_sparse_table(<<head>>, "uint32_t", "scripts", scripts,
                                    Some(scripts_default))
           r2 == Then(r1, Write(r1.cpp, elided("script_extensions")))
           r3 == Then(r2, Write(r2.cpp, tail))
       IN  /\ out' = Written(out, "unicorn/ucd-script-tables.cpp", r3)
           /\ IF r3.ok
              THEN pc' = "normalization_test"
                   /\ UNCHANGED <<line, script_name_codes, unicode_data, derived>>
              ELSE Abort
    /\ UNCHANGED <<ucd, call>>

\* unicorn/ucd-normalization-test.cpp, from NormalizationTest.txt
NormalizationTest ==
    /\ pc = "normalization_test"
    /\ out' = Written(out, "unicorn/ucd-normalization-test.cpp",
                      Returned(<<head, elided("normalization_test"), tail>>))
    /\ pc' = "segmentation_test"
    /\ UNCHANGED <<line, ucd, script_name_codes, unicode_data, derived, call>>

\* unicorn/ucd-segmentation-test.cpp, from the break test files; the program ends
SegmentationTest ==
    /\ pc = "segmentation_test"
    /\ out' = Written(out, "unicorn/ucd-segmentation-test.cpp",
                      Returned(<<head, elided("segmentation_test"), tail>>))
    /\ pc' = "done"
    /\ UNCHANGED <<line, ucd, script_name_codes, unicode_data, derived, call>>

Next ==
    \/ IsoScriptNames
    \/ UnicodeDataRecord
    \/ RangePropagation
    \/ CharacterNames
    \/ PropertyTables
    \/ BidiTables
    \/ BlockTables
    \/ CaseFoldingRecord
    \/ FoldNormalization
    \/ CaseTables
    \/ CompositionExclusionsRecord
    \/ ExclusionInference
    \/ Composition
    \/ DecompositionTables
    \/ NumericTables
    \/ ScriptRecord
    \/ ScriptTables
    \/ NormalizationTest
    \/ SegmentationTest

---------------------------------------------------------------------------
(* Source files the program is run on *)

\* a decomposition field: whether it starts with a <tag>, and its words
NoDecomp == [tag |-> FALSE, words |-> <<>>]

Canonical(words) == [tag |-> FALSE, words |-> words]

Compatibility(words) == [tag |-> TRUE, words |-> words]

\* general category fields, as the codes of their two characters
Lu == <<76, 117>>

Ll == <<76, 108>>

Nd == <<78, 100>>

Cn == <<67, 110>>

\* a record of UnicodeData.txt for an uppercase letter with no decomposition
\* and no case mapping
UnicodeDataFields(code) ==
    [code |-> code, name |-> <<"X">>, gc |-> Lu, ccc |-> <<0>>, bidi |-> "L",
     decomp |-> NoDecomp, mirrored |-> "N", uc |-> <<>>, lc |-> <<>>, tc |-> <<>>]

\* the sequences of at most n elements of S
SeqsUpTo(S, n) == UNION {[1..k -> S] : k \in 0..n}

\* source files with which every stage of the program has something to read:
\* one script name and one record each of CaseFolding.txt,
\* CompositionExclusions.txt and Scripts.txt
BaseSource ==
    [NoSource EXCEPT
        !.iso15924 = <<[code |-> <<108, 97, 116, 110>>, name |-> "Latin"]>>,
        !.CaseFolding = <<[code |-> <<4, 1>>, status |-> "C", mapping |-> <<<<6, 1>>>>]>>,
        !.CompositionExclusions = <<[code |-> <<<<9, 5, 8>>>>]>>,
        !.Scripts = <<[code |-> <<<<4, 1>>>>, script |-> "Latin"]>>]

\* a run of the program from its first statement on the given source files
RunOn(files) ==
    /\ ProgramStart
    /\ pc = "start"
    /\ ucd = files

(* UnicodeData.txt of the end-to-end scenario: U+0041..U+0043 of one general
   category, U+0044 of another *)
CategoryValues == {Lu, Ll, Nd, Cn}

ScenarioData(value1, value2) ==
    <<[UnicodeDataFields(<<4, 1>>) EXCEPT !.gc = value1],
      [UnicodeDataFields(<<4, 2>>) EXCEPT !.gc = value1],
      [UnicodeDataFields(<<4, 3>>) EXCEPT !.gc = value1],
      [UnicodeDataFields(<<4, 4>>) EXCEPT !.gc = value2]>>

InitCategory ==
    \E value1 \in CategoryValues : \E value2 \in CategoryValues \ {value1} :
        RunOn([BaseSource EXCEPT !.UnicodeData = ScenarioData(value1, value2)])

SpecCategory == InitCategory /\ [][Next]_vars

(* Case mappings: UnicodeData.txt gives each of the codepoints 1 and 2 no
   record, no lowercase or a lowercase; CaseFolding.txt has at most
   MaxFoldRecords records *)
CaseCodes == {1, 2}

CaseData(present, lower) ==
    LET codes == sorted(present)
    IN  [i \in DOMAIN codes |->
            [UnicodeDataFields(Hex(codes[i])) EXCEPT !.lc = lower[codes[i]]]]

FoldRecords ==
    {[code |-> Hex(1), status |-> "C", mapping |-> <<Hex(m)>>] : m \in CaseCodes}
        \cup {[code |-> Hex(1), status |-> "S", mapping |-> <<Hex(2)>>],
              [code |-> Hex(1), status |-> "T", mapping |-> <<Hex(1)>>],
              [code |-> Hex(2), status |-> "C", mapping |-> <<Hex(1)>>]}
        \cup {[code |-> Hex(c), status |-> "F", mapping |-> <<Hex(1), Hex(2)>>] : c \in CaseCodes}

InitCase ==
    \E present \in SUBSET CaseCodes :
        \E lower \in [present -> {<<>>} \cup {Hex(c) : c \in CaseCodes}] :
        \E folding \in SeqsUpTo(FoldRecords, MaxFoldRecords) :
            RunOn([BaseSource EXCEPT !.UnicodeData = CaseData(present, lower),
                                     !.CaseFolding = folding])

SpecCase == InitCase /\ [][Next]_vars

(* Decompositions: UnicodeData.txt has at most MaxDecompRecords records, in
   any order and with repeats, for the codepoints 1 and 2 (with a canonical
   decomposition to <3> or <3, 3>) and 3 (with none); the combining class of
   each is 0 or 230 *)
DecompRecords ==
    {[UnicodeDataFields(Hex(c)) EXCEPT !.ccc = k, !.decomp = Canonical(w)] :
        c \in {1, 2}, k \in {<<0>>, <<2, 3, 0>>}, w \in {<<Hex(3)>>, <<Hex(3), Hex(3)>>}}
        \cup {[UnicodeDataFields(Hex(3)) EXCEPT !.ccc = k] : k \in {<<0>>, <<2, 3, 0>>}}

ExclusionFiles == {<<>>, <<[code |-> <<Hex(1)>>]>>, <<[code |-> <<Hex(1), Hex(2)>>]>>}

InitDecomp ==
    \E data \in SeqsUpTo(DecompRecords, MaxDecompRecords) \ {<<>>} :
        \E excl \in ExclusionFiles :
            RunOn([BaseSource EXCEPT !.UnicodeData = data,
                                     !.CompositionExclusions = excl])

SpecDecomp == InitDecomp /\ [][Next]_vars

(* Runs that may end in an exception: a code that is no hex number, a canonical
   decomposition of three codepoints, a full case folding of four, a script
   name the ISO table lacks, an empty Scripts.txt *)
RunRecords ==
    {UnicodeDataFields(Hex(1)),
     [UnicodeDataFields(Hex(2)) EXCEPT !.decomp = Canonical(<<Hex(3), Hex(3)>>)],
     [UnicodeDataFields(Hex(2)) EXCEPT !.decomp = Canonical(<<Hex(3), Hex(3), Hex(3)>>)],
     UnicodeDataFields(<<16>>)}

RunFoldings ==
    {<<>>,
     <<[code |-> Hex(1), status |-> "F", mapping |-> <<Hex(1), Hex(2)>>]>>,
     <<[code |-> Hex(1), status |-> "F", mapping |-> <<Hex(1), Hex(2), Hex(1), Hex(2)>>]>>}

RunScripts ==
    {<<>>,
     <<[code |-> <<Hex(1)>>, script |-> "Latin"]>>,
     <<[code |-> <<Hex(1)>>, script |-> "Klingon"]>>}

Init ==
    \E data \in SeqsUpTo(RunRecords, MaxRunRecords) :
        \E folding \in RunFoldings : \E script \in RunScripts :
            RunOn([BaseSource EXCEPT !.UnicodeData = data,
                                     !.CaseFolding = folding,
                                     !.Scripts = script])

Spec == Init /\ [][Next]_vars

(* Ranges: UnicodeData.txt is at most MaxRangeItems items in any order, an
   item being one record of codepoint 2 or 3, or a '<X, First>' record
   followed by its '<X, Last>' record with the other profile; a record is an
   uppercase left-to-right unmirrored letter or a lowercase right-to-left
   mirrored one *)
Profiles == {[gc |-> Lu, bidi |-> "L", mirrored |-> "N"],
             [gc |-> Ll, bidi |-> "R", mirrored |-> "Y"]}

OtherProfile(p) == CHOOSE q \in Profiles : q # p

ProfiledRecord(c, name, p) ==
    [UnicodeDataFields(Hex(c)) EXCEPT !.name = name, !.gc = p.gc, !.bidi = p.bidi,
                                      !.mirrored = p.mirrored]

\* the ranges: two that overlap each other and one that holds them both
RangePairs == {<<1, 3>>, <<2, 4>>, <<1, 4>>}

RangeItems ==
    {<<ProfiledRecord(c, <<"X">>, p)>> : c \in {2, 3}, p \in Profiles}
        \cup {<<ProfiledRecord(r[1], <<"<", "X", ",">> \o FirstSuffix, p),
                ProfiledRecord(r[2], <<"<", "X", ",">> \o LastSuffix, OtherProfile(p))>> :
                  r \in RangePairs, p \in Profiles}

\* the records of a sequence of items
RECURSIVE Flatten(_)
Flatten(items) == IF items = <<>> THEN <<>> ELSE Head(items) \o Flatten(Tail(items))

InitRange ==
    \E items \in SeqsUpTo(RangeItems, MaxRangeItems) :
        RunOn([BaseSource EXCEPT !.UnicodeData = Flatten(items)])

SpecRange == InitRange /\ [][Next]_vars

(* Names: UnicodeData.txt is at most MaxNameRecords records, in any order
   and with repeats, of the codepoints 1, 0xa and 0x1a, each with a name, an
   empty name or a '<...>' label *)
NameCodes == {1, 10, 26}

RecordNames ==
    {<<"A">>, <<"A", " ", "1", "a">>, <<"a", "<", "b">>, <<>>, <<"<", "c", ">">>}

NameRecords ==
    {[UnicodeDataFields(Hex(c)) EXCEPT !.name = n] : c \in NameCodes, n \in RecordNames}

InitNames ==
    \E data \in SeqsUpTo(NameRecords, MaxNameRecords) \ {<<>>} :
        RunOn([BaseSource EXCEPT !.UnicodeData = data])

SpecNames == InitNames /\ [][Next]_vars

(* Aliases: UnicodeData.txt names some of the codepoints 1, 0xa and 0x1a;
   NameAliases.txt is at most MaxAliasRecords records for them, corrections
   and other aliases, and possibly a correction whose code is not hexadecimal *)
AliasData ==
    {<<[UnicodeDataFields(<<1>>) EXCEPT !.name = <<"A">>]>>,
     <<[UnicodeDataFields(<<10>>) EXCEPT !.name = <<"A", "a">>],
       [UnicodeDataFields(<<1>>) EXCEPT !.name = <<"A">>]>>,
     <<[UnicodeDataFields(<<1, 10>>) EXCEPT !.name = <<"A">>],
       [UnicodeDataFields(<<10>>) EXCEPT !.name = <<"<", "c", ">">>]>>}

AliasRecords ==
    {[code |-> Hex(c), name |-> n, type |-> t] :
        c \in NameCodes, n \in {<<"B">>, <<"C", "a">>}, t \in {"correction", "abbreviation"}}
    \cup {[code |-> <<16>>, name |-> <<"B">>, type |-> "correction"]}

InitAliases ==
    \E data \in AliasData, aliases \in SeqsUpTo(AliasRecords, MaxAliasRecords) :
        RunOn([BaseSource EXCEPT !.UnicodeData = data, !.NameAliases = aliases])

SpecAliases == InitAliases /\ [][Next]_vars

(* Script tags: the ISO 15924 table gives two scripts codes of one to four
   of the letters 'a', 'b' and 'z'; Scripts.txt gives codepoint 1 the first
   script and codepoint 2 the second; UnicodeData.txt has one record *)
TagLetters == {97, 98, 122}

TagCodes == UNION {[1..k -> TagLetters] : k \in 1..4}

InitTags ==
    \E c1, c2 \in TagCodes :
        /\ ~LexLess(c2, c1)
        /\ RunOn([BaseSource EXCEPT
               !.UnicodeData = <<UnicodeDataFields(<<1>>)>>,
               !.iso15924 = <<[code |-> c1, name |-> "First"],
                              [code |-> c2, name |-> "Second"]>>,
               !.Scripts = <<[code |-> <<<<1>>>>, script |-> "First"],
                             [code |-> <<<<2>>>>, script |-> "Second"]>>])

SpecTags == InitTags /\ [][Next]_vars

(* Identifier properties: DerivedCoreProperties.txt is at most
   MaxPropRecords records, each a codepoint or a range with one of the four
   identifier properties or another property, and possibly a record whose code
   is not hexadecimal *)
PropNames == {"ID_Start", "ID_Continue", "XID_Start", "XID_Continue", "Alphabetic"}

PropCodes == {<<<<1>>>>, <<<<2>>>>, <<<<1>>, <<3>>>>}

PropRecords ==
    {[code |-> c, prop |-> p] : c \in PropCodes, p \in PropNames}
    \cup {[code |-> <<<<16>>>>, prop |-> "ID_Start"]}

InitIdent ==
    \E records \in SeqsUpTo(PropRecords, MaxPropRecords) :
        RunOn([BaseSource EXCEPT
               !.UnicodeData = <<UnicodeDataFields(<<1>>)>>,
               !.DerivedCoreProperties = records])

SpecIdent == InitIdent /\ [][Next]_vars

---------------------------------------------------------------------------
(* The codecs on every association and every set within the bounds *)

\* the value texts of a table of type T: enumerators of T (T::N is the zero one)
TableValues == {"T::N", "T::A", "T::F"}

\* every association from keys in 0..MaxKey to TableValues (the empty one too)
Associations == UNION {[D -> TableValues] : D \in SUBSET (0..MaxKey)}

\* the default write_sparse_table works with
EffectiveDefault(dv) == IF dv = None THEN default_defval("T") ELSE dv[1]

InitTable ==
    /\ EmptyCollections
    /\ NoFile
    /\ NoCharmap
    /\ ucd = NoSource
    /\ pc = "write_sparse_table"
    /\ table \in Associations
    /\ defval \in {None} \cup {Some(v) : v \in TableValues}
    /\ cpp = <<>>

\* write_sparse_table(cpp, 'T', 't', table, defval)
CallWriteSparseTable ==
    /\ pc = "write_sparse_table"
    /\ LET r == write_sparse_table(cpp, "T", "t", table, defval)
       IN  /\ cpp' = r.cpp
           /\ pc' = IF r.ok THEN "table_returned" ELSE "table_raised"
    /\ UNCHANGED <<table, defval, keysize_arg, valsize_arg, src, minfields, callbacks>>
    /\ UNCHANGED <<line, ucd, out, script_name_codes, unicode_data, derived>>

NextTable == CallWriteSparseTable

SpecTable == InitTable /\ [][NextTable]_vars

InitSet ==
    /\ EmptyCollections
    /\ NoFile
    /\ NoCharmap
    /\ ucd = NoSource
    /\ pc = "write_sparse_set"
    /\ table \in SUBSET (0..MaxCode)
    /\ defval = None
    /\ cpp = <<>>

\* write_sparse_set(cpp, 's', table)
CallWriteSparseSet ==
    /\ pc = "write_sparse_set"
    /\ LET r == write_sparse_set(cpp, "s", table)
       IN  /\ cpp' = r.cpp
           /\ pc' = IF r.ok THEN "set_returned" ELSE "set_raised"
    /\ UNCHANGED <<table, defval, keysize_arg, valsize_arg, src, minfields, callbacks>>
    /\ UNCHANGED <<line, ucd, out, script_name_codes, unicode_data, derived>>

NextSet == CallWriteSparseSet

SpecSet == InitSet /\ [][NextSet]_vars

---------------------------------------------------------------------------
(* write_charmap on tables of codepoint sequences *)

\* the sizes the program declares: 2 for canonical (and the keys of
\* composition), 3 for short compatibility and the full case mappings, 18 for
\* long compatibility
DeclaredSizes == {2, 3, 18}

\* the sequences 1, 2, .., k and k, .., 2, 1 of at most MaxSeqLen codepoints
Sequences == {[i \in 1..k |-> i] : k \in 0..MaxSeqLen}
                 \cup {[i \in 1..k |-> k + 1 - i] : k \in 0..MaxSeqLen}

\* the tables from codepoints 1, 2 to sequences, written with valsize N, and
\* the tables from short sequences to a codepoint, written with keysize 2
InitCharmap ==
    /\ EmptyCollections
    /\ NoFile
    /\ ucd = NoSource
    /\ pc = "write_charmap"
    /\ defval = None
    /\ cpp = <<>>
    /\ \/ /\ keysize_arg = 1
          /\ valsize_arg \in DeclaredSizes
          /\ table \in UNION {[D -> Sequences] : D \in SUBSET {1, 2}}
       \/ /\ keysize_arg = 2
          /\ valsize_arg = 1
          /\ table \in UNION {[D -> {5}] :
                                D \in SUBSET {s \in Sequences : Len(s) <= 3}}

\* write_charmap(cpp, 'm', table, keysize, valsize)
CallWriteCharmap ==
    /\ pc = "write_charmap"
    /\ LET r == write_charmap(cpp, "m", table, keysize_arg, valsize_arg)
       IN  /\ cpp' = r.cpp
           /\ pc' = IF r.ok THEN "charmap_returned" ELSE "charmap_raised"
    /\ UNCHANGED <<table, defval, keysize_arg, valsize_arg, src, minfields, callbacks>>
    /\ UNCHANGED <<line, ucd, out, script_name_codes, unicode_data, derived>>

NextCharmap == CallWriteCharmap

SpecCharmap == InitCharmap /\ [][NextCharmap]_vars

---------------------------------------------------------------------------
(* process_file on every file within the bounds *)

\* line.partition('#')[0]: the text before the first comment marker
RECURSIVE before_comment(_)
before_comment(s) ==
    IF s = <<>> \/ Head(s) = "#" THEN <<>>
    ELSE <<Head(s)>> \o before_comment(Tail(s))

\* str.strip(), whitespace being the space (the newline that ends a line is
\* whitespace too and is left out of the lines)
RECURSIVE lstrip(_)
lstrip(s) == IF s # <<>> /\ Head(s) = " " THEN lstrip(Tail(s)) ELSE s

RECURSIVE rstrip(_)
rstrip(s) == IF s # <<>> /\ s[Len(s)] = " " THEN rstrip(SubSeq(s, 1, Len(s) - 1)) ELSE s

strip(s) == rstrip(lstrip(s))

\* text.split(delim) from s on, cur being the field read so far
RECURSIVE split_from(_, _, _)
split_from(s, delim, cur) ==
    IF s = <<>> THEN <<cur>>
    ELSE IF Head(s) = delim THEN <<cur>> \o split_from(Tail(s), delim, <<>>)
    ELSE split_from(Tail(s), delim, Append(cur, Head(s)))

split(s, delim) == split_from(s, delim, <<>>)

\* a faulty test: a record of exactly minfields fields is skipped
enough_fields_strictly(fields, n) == Len(fields) > n

\* len(fields) >= minfields
enough_fields(fields, n) == Len(fields) >= n

\* the body of the loop of process_file for one line: the callbacks made so
\* far, and one more when the line is a record
process_line(l, n, delim, made) ==
    LET text == strip(before_comment(l))
        fields == split(text, delim)
    IN  IF text # <<>> /\ enough_fields(fields, n)
        THEN Append(made, [i \in 1..n |-> strip(fields[i])])
        ELSE made

Chars == {"a", " ", ";", "#"}

\* lines that tell where in the file they stand: three fields, one field, a
\* comment, two fields with spaces around them
MarkedLines ==
    {<<"b", ";", "b", ";", "b">>, <<"b">>, <<"#", "b">>,
     <<" ", "b", " ", ";", " ", "b", " ">>}

\* a file is a line of at most MaxLineLen characters, alone or before or after
\* a marked line
ParsedFiles ==
    LET any == SeqsUpTo(Chars, MaxLineLen)
    IN  {<<l>> : l \in any}
            \cup {<<l, m>> : l \in any, m \in MarkedLines}
            \cup {<<m, l>> : l \in any, m \in MarkedLines}

InitParse ==
    /\ EmptyCollections
    /\ NoCharmap
    /\ ucd = NoSource
    /\ pc = "process_file"
    /\ table = <<>>
    /\ defval = None
    /\ cpp = <<>>
    /\ src \in ParsedFiles
    /\ minfields \in 1..3
    /\ callbacks = <<>>

\* one turn of 'for line in src'
ProcessFileLine ==
    /\ pc = "process_file"
    /\ line <= Len(src)
    /\ callbacks' = process_line(src[line], minfields, ";", callbacks)
    /\ line' = line + 1
    /\ UNCHANGED <<pc, ucd, out, script_name_codes, unicode_data, derived,
                   table, defval, cpp, keysize_arg, valsize_arg, src, minfields>>

\* the end of the file
ProcessFileEnd ==
    /\ pc = "process_file"
    /\ line > Len(src)
    /\ pc' = "file_returned"
    /\ UNCHANGED <<line, ucd, out, script_name_codes, unicode_data, derived, call>>

NextParse == ProcessFileLine \/ ProcessFileEnd

SpecParse == InitParse /\ [][NextParse]_vars

---------------------------------------------------------------------------
(* Claims about the codecs *)

\* the query rule of a sparse table: the value of the greatest breakpoint <= c,
\* else the default
Lookup(entries, c, dflt) ==
    LET S == {i \in DOMAIN entries : HexVal(entries[i].key) <= c}
    IN  IF S = {} THEN dflt
        ELSE entries[CHOOSE i \in S :
                       \A j \in S : HexVal(entries[j].key) <= HexVal(entries[i].key)].val

\* the codepoints queried: past the greatest key and the entry that closes it
QueryDomain == 0..(MaxKey + 3)

\* the function c -> A.get(c, d) of the association handed to write_sparse_table
SourceValue(c) == Get(table, c, EffectiveDefault(defval))

\* C1: for every non-empty association and default, looking up any codepoint in
\* the entries write_sparse_table emitted, by the rule 'value of the greatest
\* breakpoint <= c, else the default', returns exactly A.get(c, d).
C1_RoundTrip ==
    pc = "table_returned" =>
        \A c \in QueryDomain :
            Lookup(EntriesOf(cpp, "t"), c, EffectiveDefault(defval)) = SourceValue(c)

\* C1 happens: a table with a key holding a non-default value, an absent
\* codepoint below the greatest key, and the codepoints past the greatest key
C1_Witness ==
    /\ pc = "table_returned"
    /\ \E c \in DOMAIN table : table[c] # EffectiveDefault(defval)
    /\ \E c \in 0..Max(DOMAIN table) : c \notin DOMAIN table
    /\ Len(EntriesOf(cpp, "t")) >= 4
    /\ Lookup(EntriesOf(cpp, "t"), Max(DOMAIN table) + 2, EffectiveDefault(defval))
           = EffectiveDefault(defval)

\* the codepoints at which a maximal run of constant value of c -> A.get(c, d) starts
RunStarts == {c \in QueryDomain : c = 0 \/ SourceValue(c) # SourceValue(c - 1)}

\* C2: the breakpoints write_sparse_table emits are strictly increasing, no
\* entry repeats the value of the entry before it, and their number (also the
\* size declared in the header) is the number of maximal runs of constant value
\* of c -> A.get(c, d).
C2_MinimalRuns ==
    pc = "table_returned" =>
        LET es == EntriesOf(cpp, "t")
        IN  /\ \A i \in 1..(Len(es) - 1) :
                   /\ HexVal(es[i].key) < HexVal(es[i + 1].key)
                   /\ es[i].val # es[i + 1].val
            /\ Len(es) = Cardinality(RunStarts)
            /\ HeaderNumber(cpp, "t") = Len(es)
            /\ {HexVal(es[i].key) : i \in DOMAIN es} = RunStarts

\* C2 happens: neighbouring keys share a value (a run is collapsed) and the
\* table still has several runs
C2_Witness ==
    /\ pc = "table_returned"
    /\ \E c \in DOMAIN table : c + 1 \in DOMAIN table /\ table[c] = table[c + 1]
    /\ Cardinality(RunStarts) >= 3
    /\ Cardinality(DOMAIN table) > Len(EntriesOf(cpp, "t"))

\* the last entry written for the table
LastEntry == EntriesOf(cpp, "t")[Len(EntriesOf(cpp, "t"))]

\* C4 as stated: every emitted table ends with the entry (max key + 1, default),
\* also when the value at the greatest key is the default.
C4_SentinelAlways ==
    pc = "table_returned" =>
        /\ HexVal(LastEntry.key) = Max(DOMAIN table) + 1
        /\ LastEntry.val = EffectiveDefault(defval)

\* C4 amended: the last entry of every emitted table carries the default; its
\* breakpoint is max key + 1 exactly when the value at the greatest key differs
\* from the default, and otherwise it is the start of the run of defaults that
\* holds the greatest key (no entry is written at max key + 1).
C4_LastEntryIsDefault ==
    pc = "table_returned" =>
        LET m == Max(DOMAIN table)
            d == EffectiveDefault(defval)
            b == HexVal(LastEntry.key)
        IN  /\ LastEntry.val = d
            /\ (table[m] # d) <=> (b = m + 1)
            /\ (table[m] = d) =>
                   /\ b <= m
                   /\ \A c \in b..m : SourceValue(c) = d
                   /\ (b = 0 \/ SourceValue(b - 1) # d)

\* C4 happens in both cases: the greatest key holds the default (after a
\* non-default run), or it does not
C4_Witness ==
    /\ pc = "table_returned"
    /\ table[Max(DOMAIN table)] = EffectiveDefault(defval)
    /\ \E c \in DOMAIN table : table[c] # EffectiveDefault(defval)
    /\ HexVal(LastEntry.key) > 0

\* C5: c is in the set exactly when some pair (first, last) write_sparse_set
\* emitted has first <= c <= last; both ends of every pair are in the set and
\* first - 1 and last + 1 are not.
C5_SetMembership ==
    pc = "set_returned" =>
        LET es == EntriesOf(cpp, "s")
        IN  /\ \A c \in (0 - 1)..(MaxCode + 1) :
                   (c \in table) <=>
                       \E i \in DOMAIN es : HexVal(es[i].key) <= c /\ c <= HexVal(es[i].val)
            /\ \A i \in DOMAIN es :
                   /\ HexVal(es[i].key) \in table
                   /\ HexVal(es[i].val) \in table
                   /\ HexVal(es[i].key) - 1 \notin table
                   /\ HexVal(es[i].val) + 1 \notin table

\* C5 happens: a set holding 0, with an interval of several codepoints, a lone
\* codepoint and a gap
C5_Witness ==
    /\ pc = "set_returned"
    /\ 0 \in table
    /\ Len(EntriesOf(cpp, "s")) >= 3
    /\ \E i \in DOMAIN EntriesOf(cpp, "s") :
           HexVal(EntriesOf(cpp, "s")[i].key) < HexVal(EntriesOf(cpp, "s")[i].val)
    /\ \E i \in DOMAIN EntriesOf(cpp, "s") :
           EntriesOf(cpp, "s")[i].key = EntriesOf(cpp, "s")[i].val

---------------------------------------------------------------------------
(* Claims about the general_category table of the scenario *)

PropertyFile == out["unicorn/ucd-property-tables.cpp"]

CategoryEntries == EntriesOf(PropertyFile.text, "general_category")

\* the initializer the table holds for a general category: 0x4c75 for Lu,
\* 0x4c6c for Ll, 0x4e64 for Nd, 0x436e for Cn
CategoryText(gc) ==
    CASE gc = Lu -> <<4, 12, 7, 5>>
      [] gc = Ll -> <<4, 12, 6, 12>>
      [] gc = Nd -> <<4, 14, 6, 4>>
      [] gc = Cn -> <<4, 3, 6, 14>>

\* value1 (of U+0041..U+0043), value2 (of U+0044) and the table default
ScenarioValue1 == CategoryText(ucd.UnicodeData[1].gc)

ScenarioValue2 == CategoryText(ucd.UnicodeData[4].gc)

CategoryDefault == CategoryText(Cn)

CategoryEntry(c, v) == Entry("general_category", Hex(c), v)

\* C3 as stated: the general_category table of the scenario has exactly the
\* two entries (0x41, value1) and (0x44, value2); querying 0x42 returns value1
\* and querying 0x45 returns the table default.
C3_TwoEntries ==
    PropertyFile.state = "complete" =>
        /\ CategoryEntries = <<CategoryEntry(65, ScenarioValue1),
                               CategoryEntry(68, ScenarioValue2)>>
        /\ Lookup(CategoryEntries, 66, CategoryDefault) = ScenarioValue1
        /\ Lookup(CategoryEntries, 69, CategoryDefault) = CategoryDefault

\* C3, amended: the general_category table of the scenario holds the entries
\* (0, default), (0x41, value1), (0x44, value2), (0x45, default) in that order,
\* less (0x41, value1) when value1 is the default and less (0x45, default) when
\* value2 is the default; querying 0x42 returns value1 and querying 0x45
\* returns the table default.
C3_Breakpoints ==
    PropertyFile.state = "complete" =>
        /\ CategoryEntries =
               <<CategoryEntry(0, CategoryDefault)>>
               \o (IF ScenarioValue1 # CategoryDefault
                   THEN <<CategoryEntry(65, ScenarioValue1)>> ELSE <<>>)
               \o <<CategoryEntry(68, ScenarioValue2)>>
               \o (IF ScenarioValue2 # CategoryDefault
                   THEN <<CategoryEntry(69, CategoryDefault)>> ELSE <<>>)
        /\ Lookup(CategoryEntries, 66, CategoryDefault) = ScenarioValue1
        /\ Lookup(CategoryEntries, 69, CategoryDefault) = CategoryDefault

\* C3 happens: the table of a scenario whose two values both differ from the
\* default has been written, with four entries
C3_Witness ==
    /\ PropertyFile.state = "complete"
    /\ ScenarioValue1 # CategoryDefault
    /\ ScenarioValue2 # CategoryDefault
    /\ Len(CategoryEntries) = 4

---------------------------------------------------------------------------
(* Claims about runs that end in an exception *)

\* C6: when the program ends with an exception (a field that is no number, an
\* over-long codepoint sequence, an unknown script name), no output file is
\* left new or half-written: every file is as the previous run left it.
C6_AtomicEmission ==
    pc = "aborted" => \A f \in FileNames : out[f].state = "old"

---------------------------------------------------------------------------
(* Claims about the case-folding tables *)

CaseFile == out["unicorn/ucd-case-tables.cpp"]

FoldEntries == EntriesOf(CaseFile.text, "simple_casefold")

FullFoldEntries == EntriesOf(CaseFile.text, "full_casefold")

\* the records of CaseFolding.txt that give codepoint c a simple fold (status
\* C or S), and those that give it a full fold of several codepoints
SimpleFoldRecords(c) ==
    {i \in DOMAIN ucd.CaseFolding :
        HexVal(ucd.CaseFolding[i].code) = c /\ ucd.CaseFolding[i].status \in {"C", "S"}}

FullFoldRecords(c) ==
    {i \in DOMAIN ucd.CaseFolding :
        /\ HexVal(ucd.CaseFolding[i].code) = c
        /\ ucd.CaseFolding[i].status = "F"
        /\ Len(ucd.CaseFolding[i].mapping) > 1}

\* the entries of codepoint c in a table of the case file
EntriesFor(entries, c) == {i \in DOMAIN entries : HexVal(entries[i].key) = c}

\* a codepoint with a simple lowercase and no simple fold record
FoldDefaulted(c) == c \in DOMAIN simple_lower /\ SimpleFoldRecords(c) = {}

\* C7 as stated: a codepoint with a simple-lowercase mapping and no status C
\* or S fold record is defaulted to fold to its simple lowercase and is
\* dropped: it does not appear in the emitted simple_casefold table.
C7_DefaultDropped ==
    CaseFile.state = "complete" =>
        \A c \in CaseCodes : FoldDefaulted(c) => EntriesFor(FoldEntries, c) = {}

\* C7, amended: a codepoint with a simple-lowercase mapping and no status C
\* or S fold record is defaulted to fold to itself, which differs from its
\* simple lowercase, and is kept: the emitted simple_casefold table has
\* exactly one entry for it, mapping it to itself.
C7_DefaultKept ==
    CaseFile.state = "complete" =>
        \A c \in CaseCodes :
            FoldDefaulted(c) =>
                /\ Cardinality(EntriesFor(FoldEntries, c)) = 1
                /\ \A i \in EntriesFor(FoldEntries, c) : FoldEntries[i].val = Hex(c)

\* C7 happens: the case file is written for a codepoint with a simple
\* lowercase and no simple fold record, while CaseFolding.txt has records
C7_Witness ==
    /\ CaseFile.state = "complete"
    /\ ucd.CaseFolding # <<>>
    /\ \E c \in CaseCodes : FoldDefaulted(c)

\* the literals of a full fold: its codepoints, then zeros up to three
FullFoldText(mapping) ==
    [j \in 1..3 |-> IF j <= Len(mapping) THEN Hex(HexVal(mapping[j])) ELSE <<0>>]

\* C8: the emitted simple_casefold table has no entry of a codepoint c whose
\* value is simple_lower[c], a codepoint whose C or S record folds it to its
\* simple lowercase has no entry at all, and the codepoints of every status F
\* record of several codepoints are in the full_casefold table.
C8_OnlyDivergences ==
    CaseFile.state = "complete" =>
        /\ \A i \in DOMAIN FoldEntries :
               LET c == HexVal(FoldEntries[i].key)
               IN  c \in DOMAIN simple_lower =>
                       FoldEntries[i].val # Hex(simple_lower[c])
        /\ \A c \in CaseCodes :
               (/\ SimpleFoldRecords(c) # {}
                /\ c \in DOMAIN simple_lower
                /\ HexVal(ucd.CaseFolding[Max(SimpleFoldRecords(c))].mapping[1])
                       = simple_lower[c])
                   => EntriesFor(FoldEntries, c) = {}
        /\ \A c \in CaseCodes :
               FullFoldRecords(c) # {} =>
                   \E i \in EntriesFor(FullFoldEntries, c) :
                       FullFoldEntries[i].val =
                           FullFoldText(ucd.CaseFolding[Max(FullFoldRecords(c))].mapping)

\* C8 happens: the case file is written from a C or S record that folds a
\* codepoint to its simple lowercase and a status F record of two codepoints
C8_Witness ==
    /\ CaseFile.state = "complete"
    /\ \E c \in CaseCodes :
           /\ SimpleFoldRecords(c) # {}
           /\ c \in DOMAIN simple_lower
           /\ HexVal(ucd.CaseFolding[Max(SimpleFoldRecords(c))].mapping[1]) = simple_lower[c]
    /\ \E c \in CaseCodes : FullFoldRecords(c) # {}

---------------------------------------------------------------------------
(* Claims about the composition table and the exclusion set *)

DecompositionFile == out["unicorn/ucd-decomposition-tables.cpp"]

CompositionEntries == EntriesOf(DecompositionFile.text, "composition")

Codepoints == 0..3

\* the records of UnicodeData.txt that give codepoint c a canonical
\* decomposition
CanonicalRecords(c) ==
    {i \in DOMAIN ucd.UnicodeData :
        /\ HexVal(ucd.UnicodeData[i].code) = c
        /\ ~ucd.UnicodeData[i].decomp.tag
        /\ ucd.UnicodeData[i].decomp.words # <<>>}

\* the composition table has been computed from the final exclusion set
PastComposition ==
    pc \in {"decomposition_tables", "numeric_tables", "Scripts",
            "normalization_test", "segmentation_test", "done", "aborted"}

PastDecompositionTables == PastComposition /\ pc # "decomposition_tables"

\* two distinct codepoints outside the exclusion set with the same canonical
\* decomposition
Tie(c1, c2) ==
    /\ c1 # c2
    /\ OHas(canonical, c1) /\ OHas(canonical, c2)
    /\ c1 \notin composition_exclusion /\ c2 \notin composition_exclusion
    /\ OGet(canonical, c1) = OGet(canonical, c2)

\* the composition table maps the decomposition of c to c, in the file too
ComposesTo(c) ==
    /\ composition[OGet(canonical, c)] = c
    /\ \E i \in DOMAIN CompositionEntries :
           /\ CompositionEntries[i].key =
                  [j \in DOMAIN OGet(canonical, c) |-> Hex(OGet(canonical, c)[j])]
           /\ CompositionEntries[i].val = Hex(c)

\* C9 as stated: of two distinct non-excluded codepoints with the same
\* canonical decomposition the composition table maps the sequence to the
\* greater codepoint, whatever the order of their records, and no error is
\* raised.
C9_GreaterWins ==
    PastDecompositionTables =>
        \A c1 \in Codepoints : \A c2 \in Codepoints :
            (Tie(c1, c2) /\ c1 < c2) =>
                DecompositionFile.state = "complete" /\ ComposesTo(c2)

\* C9, amended: of two distinct non-excluded codepoints with the same
\* canonical decomposition the composition table maps the sequence to the one
\* whose first record with a canonical decomposition comes later in
\* UnicodeData.txt (the greater codepoint when the records are in ascending
\* order), and no error is raised.
C9_LaterRecordWins ==
    PastDecompositionTables =>
        \A c1 \in Codepoints : \A c2 \in Codepoints :
            (Tie(c1, c2) /\ Min(CanonicalRecords(c1)) < Min(CanonicalRecords(c2))) =>
                DecompositionFile.state = "complete" /\ ComposesTo(c2)

\* C9 happens: the file is written for two tied codepoints whose records are
\* in descending order
C9_Witness ==
    /\ DecompositionFile.state = "complete"
    /\ \E c1 \in Codepoints : \E c2 \in Codepoints :
           /\ Tie(c1, c2)
           /\ c1 < c2
           /\ Min(CanonicalRecords(c2)) < Min(CanonicalRecords(c1))

\* the codepoints CompositionExclusions.txt lists
ListedExclusions ==
    UNION {LET f == ucd.CompositionExclusions[i].code
           IN  HexVal(f[1])..HexVal(f[Len(f)]) : i \in DOMAIN ucd.CompositionExclusions}

\* the codepoints a record gives a canonical decomposition of one codepoint
SingletonDecompositions ==
    {c \in Codepoints :
        \E i \in CanonicalRecords(c) : Len(ucd.UnicodeData[i].decomp.words) = 1}

\* the codepoints whose decomposition's first element has a nonzero class
FirstElementClassed ==
    {c \in Codepoints :
        OHas(canonical, c) /\ Get(combining_class, OGet(canonical, c)[1], 0) # 0}

\* the exclusion set is final
PastInference == PastComposition \/ pc = "composition"

\* C10 as stated: the final exclusion set is exactly the listed codepoints,
\* those with a single-codepoint canonical decomposition, those whose
\* decomposition's first element has a nonzero combining class, and those
\* whose own combining class is nonzero.
C10_LiteralUnion ==
    PastInference =>
        composition_exclusion =
            ListedExclusions \cup SingletonDecompositions \cup FirstElementClassed
                \cup {c \in Codepoints : Get(combining_class, c, 0) # 0}

\* C10, amended: the final exclusion set is exactly the listed codepoints,
\* those a record gives a single-codepoint canonical decomposition, and those
\* WITH A CANONICAL DECOMPOSITION whose decomposition's first element has a
\* nonzero combining class or whose own combining class is nonzero; it is a
\* superset of the list, holds every codepoint with a length-1 canonical
\* decomposition, and no step removes a codepoint from the set.
C10_ExclusionSet ==
    /\ [](PastInference =>
            /\ composition_exclusion =
                   ListedExclusions \cup SingletonDecompositions \cup FirstElementClassed
                       \cup {c \in Codepoints :
                                OHas(canonical, c) /\ Get(combining_class, c, 0) # 0}
            /\ ListedExclusions \subseteq composition_exclusion
            /\ \A c \in Codepoints :
                   (OHas(canonical, c) /\ Len(OGet(canonical, c)) = 1)
                       => c \in composition_exclusion)
    /\ [][composition_exclusion \subseteq composition_exclusion']_vars

\* C10 happens: the final set holds a listed codepoint, a codepoint with a
\* single-codepoint decomposition and a codepoint excluded only for its class
C10_Witness ==
    /\ PastInference
    /\ ListedExclusions # {}
    /\ SingletonDecompositions # {}
    /\ \E c \in composition_exclusion :
           /\ c \notin ListedExclusions \cup SingletonDecompositions
           /\ Get(combining_class, c, 0) # 0

---------------------------------------------------------------------------
(* Claims about range propagation *)

\* the pass over UnicodeData.txt and the loop over range_bounds are done
PastUnicodeData == pc \notin {"start", "UnicodeData"}

\* the positions of the First records that their Last record follows
MarkerPairs ==
    {i \in 1..(Len(ucd.UnicodeData) - 1) :
        /\ endswith(ucd.UnicodeData[i].name, FirstSuffix)
        /\ endswith(ucd.UnicodeData[i + 1].name, LastSuffix)}

RecordCode(i) == HexVal(ucd.UnicodeData[i].code)

\* the tables hold for codepoint c what record i says
HoldsRecord(c, i) ==
    /\ general_category[c] = CategoryText(ucd.UnicodeData[i].gc)
    /\ bidi_class[c] = "Bidi_Class::" \o ucd.UnicodeData[i].bidi

\* C11: after the UnicodeData pass, for every (First, Last) marker pair at f
\* and l and every c with f < c < l, general_category[c] = general_category[f],
\* bidi_class[c] = bidi_class[f] and c is in bidi_mirrored exactly when f is;
\* f and l keep the values of their own records.
C11_RangePropagation ==
    PastUnicodeData =>
        \A i \in MarkerPairs :
            LET f == RecordCode(i)
                l == RecordCode(i + 1)
            IN  /\ \A c \in (f + 1)..(l - 1) :
                       /\ general_category[c] = general_category[f]
                       /\ bidi_class[c] = bidi_class[f]
                       /\ (c \in bidi_mirrored) <=> (f \in bidi_mirrored)
                /\ HoldsRecord(f, i)
                /\ HoldsRecord(l, i + 1)

---------------------------------------------------------------------------
(* Claims about process_file *)

\* the positions of line l before its comment marker that hold no space
Significant(l) ==
    LET marks == {i \in DOMAIN l : l[i] = "#"}
        stop == IF marks = {} THEN Len(l) + 1 ELSE Min(marks)
    IN  {i \in 1..(stop - 1) : l[i] # " "}

\* the positions of the delimiters of the trimmed text of l
Delimiters(l) == {i \in Significant(l) : l[i] = ";"}

\* l is a record of at least n fields
IsRecord(l, n) == Significant(l) # {} /\ Cardinality(Delimiters(l)) + 1 >= n

\* the k-th field of record l, trimmed: what lies between the (k-1)-th and the
\* k-th delimiter, from its first to its last character that is no space
TrimmedField(l, k) ==
    LET before == {d \in Delimiters(l) : Cardinality({e \in Delimiters(l) : e <= d}) = k - 1}
        after == {d \in Delimiters(l) : Cardinality({e \in Delimiters(l) : e <= d}) = k}
        from == IF before = {} THEN Min(Significant(l)) ELSE Min(before) + 1
        to == IF after = {} THEN Max(Significant(l)) ELSE Min(after) - 1
        inside == {i \in Significant(l) : from <= i /\ i <= to}
    IN  IF inside = {} THEN <<>> ELSE SubSeq(l, Min(inside), Max(inside))

\* the callbacks due for the first m lines of the file
RECURSIVE DueCallbacks(_)
DueCallbacks(m) ==
    IF m = 0 THEN <<>>
    ELSE IF IsRecord(src[m], minfields)
    THEN Append(DueCallbacks(m - 1), [k \in 1..minfields |-> TrimmedField(src[m], k)])
    ELSE DueCallbacks(m - 1)

\* C12: process_file calls the callback, in file order, exactly once for each
\* line that without its comment and trimmed is non-empty and splits into at
\* least minfields fields, with exactly the first minfields fields, trimmed;
\* every other line is skipped, and no line makes it raise.
C12_RecordParserArity ==
    pc \in {"process_file", "file_returned"} =>
        /\ callbacks = DueCallbacks(line - 1)
        /\ \A i \in DOMAIN callbacks : Len(callbacks[i]) = minfields

\* C12 happens: a file of two lines has been read, one a record with more
\* fields than minfields and spaces around a field, the other skipped
C12_Witness ==
    /\ pc = "file_returned"
    /\ Len(src) = 2
    /\ Len(callbacks) = 1
    /\ \E i \in DOMAIN src :
           /\ IsRecord(src[i], minfields)
           /\ Cardinality(Delimiters(src[i])) + 1 > minfields
           /\ \E j \in DOMAIN src[i] : src[i][j] = " "

---------------------------------------------------------------------------
(* Claims about write_charmap *)

\* a sequence as N literals: its codepoints in order, then zeros
Padded(seq, n) == [j \in 1..n |-> IF j <= Len(seq) THEN Hex(seq[j]) ELSE <<0>>]

\* the declared size of the sequences of the table, and the sequences
SequenceSize == IF keysize_arg > 1 THEN keysize_arg ELSE valsize_arg

TableSequences ==
    IF keysize_arg > 1 THEN DOMAIN table ELSE {table[c] : c \in DOMAIN table}

\* the sequence an emitted entry stands for
EntrySequence(e) == IF keysize_arg > 1 THEN e.key ELSE e.val

\* C13: write_charmap given a key or value sequence of more codepoints than
\* its declared size N raises and does not return; otherwise it returns with
\* one entry per key; and every entry it emitted, before raising too, carries
\* exactly N elements: a sequence of the table, whole, in order, then zeros.
C13_OverLongIsFatal ==
    pc \in {"charmap_returned", "charmap_raised"} =>
        LET es == EntriesOf(cpp, "m")
        IN  /\ (pc = "charmap_raised") <=> (\E q \in TableSequences : Len(q) > SequenceSize)
            /\ pc = "charmap_returned" => Len(es) = Cardinality(DOMAIN table)
            /\ pc = "charmap_raised" => ~HasFooter(cpp, "m")
            /\ \A i \in DOMAIN es :
                   /\ Len(EntrySequence(es[i])) = SequenceSize
                   /\ \E k \in DOMAIN table :
                          IF keysize_arg > 1
                          THEN /\ Len(k) <= SequenceSize
                               /\ es[i].key = Padded(k, SequenceSize)
                               /\ es[i].val = Hex(table[k])
                          ELSE /\ Len(table[k]) <= SequenceSize
                               /\ es[i].key = Hex(k)
                               /\ es[i].val = Padded(table[k], SequenceSize)

\* C13 happens: a table with a sequence of N codepoints and one of N + 1 has
\* made write_charmap raise after the entry of the first was written, padded
\* by nothing
C13_Witness ==
    /\ pc = "charmap_raised"
    /\ Len(EntriesOf(cpp, "m")) = 1
    /\ \E q \in TableSequences : Len(q) = SequenceSize + 1
    /\ \E q \in TableSequences : Len(q) = SequenceSize

---------------------------------------------------------------------------
(* The name stream *)

NamesFile == out["unicorn/ucd-character-names.cpp"]

\* the characters the names blob packs
NameStream == NamesFile.text[2].list

\* the value of a text of hexadecimal characters
RECURSIVE HexCharsValue(_)
HexCharsValue(cs) ==
    IF cs = <<>> THEN 0
    ELSE 16 * HexCharsValue(SubSeq(cs, 1, Len(cs) - 1))
         + ((CHOOSE k \in DOMAIN HexDigits : HexDigits[k] = cs[Len(cs)]) - 1)

\* the positions of ';' in a stream
Separators(stream) == {k \in DOMAIN stream : stream[k] = ";"}

\* the first ';' of a stream after position k
NextSeparator(stream, k) ==
    CHOOSE m \in Separators(stream) :
        m > k /\ \A n \in Separators(stream) : n > k => m <= n

\* a stream that does not follow the grammar parses to this
Malformed == <<[code |-> -1, name |-> <<>>]>>

\* the '<hex>;<name>;' grammar: the records of a stream from position k on, in
\* the order of the stream
RECURSIVE ParseNames(_, _)
ParseNames(stream, k) ==
    IF k > Len(stream) THEN <<>>
    ELSE IF Cardinality({m \in Separators(stream) : m >= k}) < 2 THEN Malformed
    ELSE LET i == NextSeparator(stream, k - 1)
             j == NextSeparator(stream, i)
             hex == SubSeq(stream, k, i - 1)
         IN  IF hex = <<>> \/ \E n \in DOMAIN hex : \A d \in DOMAIN HexDigits : HexDigits[d] # hex[n]
             THEN Malformed
             ELSE <<[code |-> HexCharsValue(hex), name |-> SubSeq(stream, i + 1, j - 1)]>>
                  \o ParseNames(stream, j + 1)

\* the positions of the records of UnicodeData.txt that name codepoint c
NamingRecords(c) ==
    {i \in DOMAIN ucd.UnicodeData :
        /\ HexVal(ucd.UnicodeData[i].code) = c
        /\ (ucd.UnicodeData[i].name = <<>> \/ ucd.UnicodeData[i].name[1] # "<")}

\* the name UnicodeData.txt gives codepoint c: that of its last naming record
GivenName(c) ==
    ucd.UnicodeData[CHOOSE i \in NamingRecords(c) : \A j \in NamingRecords(c) : j <= i].name

\* C14: once the names file is written, parsing the name stream with the
\* '<hex>;<name>;' grammar gives records in strictly ascending codepoint
\* order, one for every codepoint that UnicodeData.txt gives a name not
\* starting with '<', each with exactly that name, and no record for any other
\* codepoint
C14_NameBlobRoundTrip ==
    (pc \notin {"start", "UnicodeData", "range_propagation", "character_names"}) =>
        LET parsed == ParseNames(NameStream, 1)
        IN  /\ \A i \in DOMAIN parsed : parsed[i].code >= 0
            /\ \A i, j \in DOMAIN parsed : i < j => parsed[i].code < parsed[j].code
            /\ \A c \in NameCodes :
                   IF NamingRecords(c) = {}
                   THEN \A i \in DOMAIN parsed : parsed[i].code # c
                   ELSE \E i \in DOMAIN parsed :
                            parsed[i].code = c /\ parsed[i].name = GivenName(c)
            /\ \A i \in DOMAIN parsed : parsed[i].code \in NameCodes

\* a run that wrote the names of two codepoints, the greater one first in the
\* file and with the empty name, and left out a codepoint labelled '<...>'
C14_Witness ==
    /\ pc = "done"
    /\ Len(ucd.UnicodeData) = 2
    /\ NamingRecords(26) = {1}
    /\ NamingRecords(1) = {2}
    /\ GivenName(26) = <<>>
    /\ GivenName(1) = <<"A", " ", "1", "a">>
    /\ Len(ParseNames(NameStream, 1)) = 2

\* a run in which a '<...>' label leaves a codepoint without a name
C14_LabelWitness ==
    /\ pc = "done"
    /\ NamingRecords(10) = {}
    /\ NamingRecords(1) # {}
    /\ \E i \in DOMAIN ucd.UnicodeData : HexVal(ucd.UnicodeData[i].code) = 10
    /\ Len(ParseNames(NameStream, 1)) = 1

---------------------------------------------------------------------------
(* Name lookup with the corrected-name overlay *)

PastCharacterNames ==
    pc \notin {"start", "UnicodeData", "range_propagation", "character_names", "aborted"}

\* the name the blob gives codepoint c, None when the blob has no record of c
BaseName(c) ==
    LET parsed == ParseNames(NameStream, 1)
    IN  IF \E i \in DOMAIN parsed : parsed[i].code = c
        THEN Some(parsed[CHOOSE i \in DOMAIN parsed : parsed[i].code = c].name)
        ELSE None

\* the corrected_names table of the names file
Overlay == EntriesOf(NamesFile.text, "corrected_names")

\* the name of codepoint c: the blob lookup first, then the overlay
\* substitution if the lookup found a name
character_name(c) ==
    IF BaseName(c) = None THEN None
    ELSE IF \E i \in DOMAIN Overlay : HexVal(Overlay[i].key) = c
    THEN Some(Overlay[CHOOSE i \in DOMAIN Overlay : HexVal(Overlay[i].key) = c].val)
    ELSE BaseName(c)

\* the positions of the 'correction' records of NameAliases.txt for c
CorrectionRecords(c) ==
    {i \in DOMAIN ucd.NameAliases :
        /\ ucd.NameAliases[i].type = "correction"
        /\ ucd.NameAliases[i].code = Hex(c)}

\* the corrected name of c: that of its last correction record
CorrectedName(c) ==
    ucd.NameAliases[CHOOSE i \in CorrectionRecords(c) : \A j \in CorrectionRecords(c) : j <= i].name

\* C15: once the names file is written, lookup followed by overlay
\* substitution gives a codepoint that UnicodeData.txt names its corrected
\* name if NameAliases.txt has a correction for it and its UnicodeData name
\* otherwise, and gives a codepoint without a name in the blob no name, a
\* correction for it notwithstanding; the overlay holds one entry per corrected
\* codepoint, ascending
C15_CorrectedNameOverlay ==
    PastCharacterNames =>
        /\ \A c \in NameCodes :
               character_name(c) =
                   IF NamingRecords(c) = {} THEN None
                   ELSE IF CorrectionRecords(c) # {} THEN Some(CorrectedName(c))
                   ELSE Some(GivenName(c))
        /\ \A i, j \in DOMAIN Overlay :
               i < j => HexVal(Overlay[i].key) < HexVal(Overlay[j].key)
        /\ {HexVal(Overlay[i].key) : i \in DOMAIN Overlay}
               = {c \in NameCodes : CorrectionRecords(c) # {}}

\* a run with a corrected named codepoint, a named codepoint that only has
\* another kind of alias, and a correction for a codepoint the blob does not
\* name
C15_Witness ==
    /\ pc = "done"
    /\ character_name(1) = Some(<<"B">>)
    /\ GivenName(1) = <<"A">>
    /\ NamingRecords(10) = {}
    /\ CorrectionRecords(10) # {}
    /\ character_name(10) = None

\* a run in which a named codepoint has an alias that is not a correction and
\* keeps its name
C15_AliasWitness ==
    /\ pc = "done"
    /\ character_name(10) = Some(<<"A", "a">>)
    /\ CorrectionRecords(10) = {}
    /\ \E i \in DOMAIN ucd.NameAliases : ucd.NameAliases[i].code = Hex(10)

---------------------------------------------------------------------------
(* Script tags *)

PastScripts == pc \in {"normalization_test", "segmentation_test", "done"}

\* the codes of the two scripts and the tags of the codepoints that have them
Code1 == ucd.iso15924[1].code

Code2 == ucd.iso15924[2].code

Tag1 == scripts[1]

Tag2 == scripts[2]

\* C16: the tags of two distinct codes of one to four lower-case letters
\* differ, the tag of a shorter code is smaller than the tag of a longer one,
\* and every tag is below 2^32 (its quotient by 2^8 is below 2^24)
C16_TagPacking ==
    PastScripts =>
        /\ Code1 # Code2 => Tag1 # Tag2
        /\ Len(Code1) < Len(Code2) => Tag1 < Tag2
        /\ Len(Code2) < Len(Code1) => Tag2 < Tag1
        /\ Tag1 >= 0 /\ Tag1 \div 256 < 2^24
        /\ Tag2 >= 0 /\ Tag2 \div 256 < 2^24

\* the run on 'aa' and 'z': the greatest one-letter code packs below the least
\* two-letter code
C16_Witness ==
    /\ pc = "done"
    /\ Code1 = <<97, 97>>
    /\ Code2 = <<122>>
    /\ Tag1 = 24929
    /\ Tag2 = 122

\* the run on 'zzz' and 'zzzz', the latter the greatest tag
C16_GreatestWitness ==
    /\ pc = "done"
    /\ Code1 = <<122, 122, 122>>
    /\ Code2 = <<122, 122, 122, 122>>
    /\ Tag1 = 8026746
    /\ Tag2 = 2054847098

---------------------------------------------------------------------------
(* The identifier sets of the property file *)

PastPropertyTables ==
    pc \notin {"start", "UnicodeData", "range_propagation", "character_names",
               "property_tables", "aborted"}

\* the codepoints of the intervals of set `name` in the property file
EmittedSet(name) ==
    UNION {HexVal(e.key)..HexVal(e.val) :
              e \in {EntriesOf(PropertyFile.text, name)[i] :
                        i \in DOMAIN EntriesOf(PropertyFile.text, name)}}

\* the codepoints DerivedCoreProperties.txt gives property prop
Listed(prop) ==
    UNION {IF Len(ucd.DerivedCoreProperties[i].code) > 1
           THEN HexVal(ucd.DerivedCoreProperties[i].code[1])
                    ..HexVal(ucd.DerivedCoreProperties[i].code[2])
           ELSE {HexVal(ucd.DerivedCoreProperties[i].code[1])} :
              i \in {j \in DOMAIN ucd.DerivedCoreProperties :
                        ucd.DerivedCoreProperties[j].prop = prop}}

\* C17: once the property file is written, the emitted id_nonstart set is the
\* listed ID_Continue codepoints less the listed ID_Start codepoints and the
\* emitted xid_nonstart set is XID_Continue less XID_Start; id_nonstart is
\* disjoint from the emitted id_start set and the two together hold every
\* ID_Continue codepoint
C17_SetDifference ==
    PastPropertyTables =>
        /\ EmittedSet("id_nonstart") = Listed("ID_Continue") \ Listed("ID_Start")
        /\ EmittedSet("xid_nonstart") = Listed("XID_Continue") \ Listed("XID_Start")
        /\ EmittedSet("id_start") = Listed("ID_Start")
        /\ EmittedSet("id_nonstart") \cap EmittedSet("id_start") = {}
        /\ Listed("ID_Continue") \subseteq EmittedSet("id_start") \cup EmittedSet("id_nonstart")

\* a run in which ID_Continue is 1..3 and ID_Start is 2: id_nonstart is the
\* two intervals around the start codepoint
C17_Witness ==
    /\ pc = "done"
    /\ Listed("ID_Continue") = {1, 2, 3}
    /\ Listed("ID_Start") = {2}
    /\ EmittedSet("id_nonstart") = {1, 3}
    /\ Len(EntriesOf(PropertyFile.text, "id_nonstart")) = 2

\* a run in which a start codepoint is not a continue codepoint
C17_StartOnlyWitness ==
    /\ pc = "done"
    /\ Listed("XID_Start") = {1, 2, 3}
    /\ Listed("XID_Continue") = {2}
    /\ EmittedSet("xid_nonstart") = {}

---------------------------------------------------------------------------
(* The composition table as the inverse of the canonical decompositions *)

\* the composition table has been computed and the program has not ended
\* in an exception since
ComposedAndRunning == PastComposition /\ pc # "aborted"

\* the (key, value) initializers of the composition table for the dict
ComposedPairs ==
    {<<[j \in DOMAIN seq |-> Hex(seq[j])], Hex(composition[seq])>> :
        seq \in DOMAIN composition}

\* C18: every entry of the composition table maps the canonical decomposition
\* of a codepoint outside the final exclusion set to that codepoint, every
\* codepoint outside the set that has a canonical decomposition has its
\* decomposition as a key, and the table written to the file is this table
C18_CompositionInverse ==
    ComposedAndRunning =>
        /\ \A seq \in DOMAIN composition :
               /\ OHas(canonical, composition[seq])
               /\ OGet(canonical, composition[seq]) = seq
               /\ composition[seq] \notin composition_exclusion
        /\ \A c \in Codepoints :
               (OHas(canonical, c) /\ c \notin composition_exclusion)
                   => OGet(canonical, c) \in DOMAIN composition
        /\ (PastDecompositionTables /\ DecompositionFile.state = "complete") =>
               {<<CompositionEntries[i].key, CompositionEntries[i].val>> :
                   i \in DOMAIN CompositionEntries} = ComposedPairs

\* a completed run in which one codepoint with a canonical decomposition is
\* composed and another, with the same decomposition, is excluded
C18_Witness ==
    /\ pc = "done"
    /\ DecompositionFile.state = "complete"
    /\ \E c1 \in Codepoints : \E c2 \in Codepoints :
           /\ OHas(canonical, c1) /\ c1 \notin composition_exclusion
           /\ composition[OGet(canonical, c1)] = c1
           /\ OHas(canonical, c2) /\ c2 \in composition_exclusion
           /\ Len(OGet(canonical, c2)) = 2
           /\ composition[OGet(canonical, c2)] # c2

---------------------------------------------------------------------------
(* The intervals of a sparse set *)

\* the (first, last) pairs write_sparse_set wrote, in the order written
SetPairs ==
    [i \in DOMAIN EntriesOf(cpp, "s") |->
        <<HexVal(EntriesOf(cpp, "s")[i].key), HexVal(EntriesOf(cpp, "s")[i].val)>>]

\* the codepoints of the set that start a maximal run of consecutive codepoints
SetRunStarts == {c \in table : c - 1 \notin table}

\* C19: the pairs write_sparse_set emits come in strictly increasing order of
\* first, each has first <= last, consecutive pairs neither overlap nor touch
\* (last + 1 < next first), and there are as many pairs as the set has maximal
\* runs of consecutive codepoints, which is also the size the header declares
C19_MaximalIntervals ==
    pc = "set_returned" =>
        /\ \A i \in DOMAIN SetPairs : SetPairs[i][1] <= SetPairs[i][2]
        /\ \A i \in DOMAIN SetPairs : \A j \in DOMAIN SetPairs :
               i < j => SetPairs[i][1] < SetPairs[j][1]
        /\ \A i \in DOMAIN SetPairs :
               i < Len(SetPairs) => SetPairs[i][2] + 1 < SetPairs[i + 1][1]
        /\ Len(SetPairs) = Cardinality(SetRunStarts)
        /\ \E i \in DOMAIN cpp :
               /\ cpp[i] = write_table_header("s", Cardinality(SetRunStarts))

\* the set {0, 1, 3, 5, 6}: two runs of two codepoints around a lone codepoint,
\* written as three pairs
C19_Witness ==
    /\ pc = "set_returned"
    /\ table = {0, 1, 3, 5, 6}
    /\ SetPairs = <<<<0, 1>>, <<3, 3>>, <<5, 6>>>>

---------------------------------------------------------------------------
(* The zero enumerator and the implicit default *)

\* the value of type T an initializer of the table denotes: the enumerators
\* count from 0 in the order of their declaration (N, A, F, ...), and
\* static_cast<T>(0) is the zero one
EnumValue(text) ==
    CASE text = "T::N" -> 0
      [] text = "T::A" -> 1
      [] text = "T::F" -> 2
      [] text = default_defval("T") -> 0

\* C20: when write_sparse_table is called without a default, a key that
\* stores the zero enumerator next to a codepoint without a key starts no
\* entry, and no two adjacent entries of the table denote the same value of
\* type T
C20_ZeroEnumeratorIsDefault ==
    (pc = "table_returned" /\ defval = None) =>
        LET es == EntriesOf(cpp, "t")
        IN  /\ \A k \in DOMAIN table :
                   (k > 0 /\ table[k] = "T::N" /\ k - 1 \notin DOMAIN table)
                       => \A i \in DOMAIN es : HexVal(es[i].key) # k
            /\ \A i \in DOMAIN es :
                   i < Len(es) => EnumValue(es[i].val) # EnumValue(es[i + 1].val)

---------------------------------------------------------------------------
(* write_sparse_table on an empty association *)

\* write_sparse_table has been called and has returned or raised
TableCallOver == pc \in {"table_returned", "table_raised"}

\* C21: write_sparse_table raises exactly when the association is empty, and
\* then nothing of the table has been written, neither header nor entry nor
\* footer; a table that is written has a header declaring at least one entry,
\* at least one entry, and 0 as its first breakpoint
C21_EmptyTableRaises ==
    TableCallOver =>
        /\ (pc = "table_raised") <=> (DOMAIN table = {})
        /\ pc = "table_raised" =>
               /\ ~HasHeader(cpp, "t")
               /\ ~HasFooter(cpp, "t")
               /\ EntriesOf(cpp, "t") = <<>>
        /\ pc = "table_returned" =>
               /\ Len(EntriesOf(cpp, "t")) >= 1
               /\ HexVal(EntriesOf(cpp, "t")[1].key) = 0
               /\ \E i \in DOMAIN cpp :
                      /\ cpp[i].kind = "header"
                      /\ cpp[i].number = Len(EntriesOf(cpp, "t"))

\* the call on the empty association has raised and left the text as it was
C21_Witness ==
    /\ pc = "table_raised"
    /\ DOMAIN table = {}
    /\ cpp = <<>>

\* the call on an association without key 0 has returned a table whose first
\* entry gives codepoint 0 the default
C21_FirstBreakpointWitness ==
    /\ pc = "table_returned"
    /\ DOMAIN table = {2}
    /\ defval = None
    /\ EntriesOf(cpp, "t")[1] = Entry("t", Hex(0), default_defval("T"))

====
